---- MODULE Spec2Model ----
(***************************************************************************)
(* Model of mysql-gtid-position: the per-file transaction boundary tracker *)
(* (searchBinlogFile) and the parallel file scan coordinator               *)
(* (SearchParallel).                                                       *)
(***************************************************************************)
EXTENDS Integers, Sequences, FiniteSets, TLC

VARIABLES
    config,              \* models.Config: FilterDatabase, StartTime, EndTime, Parallel
    file,                \* the binlog file given to searchBinlogFile: events, ioError
    idx,                 \* index of the next event ParseFile hands to the callback
    result,              \* searchBinlogFile: var result *models.GTIDPosition
    currentDatabase,     \* searchBinlogFile: var currentDatabase string
    currentTransaction,  \* searchBinlogFile: var currentTransaction *models.GTIDPosition
    parseErr,            \* err returned by parser.ParseFile
    tpc,                 \* searchBinlogFile position: idle, parsing, parsed, returned
    retPos,              \* searchBinlogFile: returned *models.GTIDPosition
    retErr,              \* searchBinlogFile: returned error
    files,               \* SearchParallel: the file list (name, events, ioError)
    mainPc,              \* SearchParallel: position of the calling goroutine
    launched,            \* SearchParallel: number of scan goroutines started
    taskPc,              \* position of the scan goroutine of each file
    semaphore,           \* number of tokens in the semaphore channel
    wg,                  \* sync.WaitGroup counter
    cancelled,           \* ctx is done: cancel() was called
    resultChan,          \* every value sent on resultChan, in order
    resultRecv,          \* how many of them the collector has received
    errorChan,           \* every value sent on errorChan, in order
    errorRecv,           \* how many of them were received
    closerPc,            \* position of the goroutine that waits and closes
    bestResult,          \* SearchParallel: var bestResult
    spRet,               \* SearchParallel: returned *models.GTIDPosition
    spErr,               \* SearchParallel: returned error
    firstRet,            \* what an earlier call over the same files returned
    previousGTIDs,       \* CheckPreviousGTIDs: var previousGTIDs *mysql.GTIDSet
    foundHeader,         \* CheckPreviousGTIDs: foundHeader
    hpc,                 \* CheckPreviousGTIDs position: idle, parsing, parsed, returned
    skipped,             \* CheckPreviousGTIDs: returned bool
    searchI,             \* sortSearch: i
    searchJ,             \* sortSearch: j
    probes,              \* the calls of CheckPreviousGTIDs made so far: index, outcome
    spc,                 \* FindStartFileUsingHeaders position: idle, search, returned
    selRet,              \* FindStartFileUsingHeaders: returned file name
    selErr,              \* FindStartFileUsingHeaders: returned error
    stream,              \* RemoteSearcher.Search: what streamer.GetEvent delivers
    startFile,           \* RemoteSearcher.Search: startFile
    rpc,                 \* RemoteSearcher.Search position: idle, enter, streaming, returned
    remoteIdx,           \* index of the next event streamer.GetEvent delivers
    remoteResult,        \* RemoteSearcher.Search: var result
    remoteDatabase,      \* RemoteSearcher.Search: var currentDatabase
    remoteTransaction,   \* RemoteSearcher.Search: var currentTransaction
    remoteRetPos,        \* RemoteSearcher.Search: returned *models.GTIDPosition
    remoteRetErr,        \* RemoteSearcher.Search: returned error
    positions,           \* CSVExporter.Export: the positions to write
    IncludeHeader,       \* CSVExporter.IncludeHeader
    written,             \* the records given to the csv writer so far
    exportIdx,           \* index of the next position the row loop writes
    epc,                 \* CSVExporter.Export position: idle, open, header, rows, returned
    exportErr,           \* CSVExporter.Export: returned error
    cfg,                 \* main: the models.Config parseFlags built from the flags
    cliPc,               \* main position: idle, main, find, local, remote-search, ...
    cliErr               \* main: the error that ends the run with exit status 1

trackerVars == <<file, idx, result, currentDatabase, currentTransaction,
                 parseErr, tpc, retPos, retErr>>

parallelVars == <<files, mainPc, launched, taskPc, semaphore, wg, cancelled,
                  resultChan, resultRecv, errorChan, errorRecv, closerPc,
                  bestResult, spRet, spErr, firstRet>>

headerVars == <<previousGTIDs, foundHeader, hpc, skipped>>

selectorVars == <<searchI, searchJ, probes, spc, selRet, selErr>>

remoteVars == <<stream, startFile, rpc, remoteIdx, remoteResult, remoteDatabase,
                remoteTransaction, remoteRetPos, remoteRetErr>>

exportVars == <<positions, IncludeHeader, written, exportIdx, epc, exportErr>>

cliVars == <<cfg, cliPc, cliErr>>

vars == <<config, file, idx, result, currentDatabase, currentTransaction,
          parseErr, tpc, retPos, retErr, files, mainPc, launched, taskPc,
          semaphore, wg, cancelled, resultChan, resultRecv, errorChan,
          errorRecv, closerPc, bestResult, spRet, spErr, firstRet,
          previousGTIDs, foundHeader, hpc, skipped, searchI, searchJ, probes,
          spc, selRet, selErr, stream, startFile, rpc, remoteIdx,
          remoteResult, remoteDatabase, remoteTransaction, remoteRetPos,
          remoteRetErr, positions, IncludeHeader, written, exportIdx, epc,
          exportErr,
          cfg, cliPc, cliErr>>

------------------------------------------------------------------------------
(* Bounds of the explored inputs. *)

MaxLen == 5       \* longest event sequence of the unfiltered, laid-out files
MaxOffLen == 3    \* longest event sequence with freely chosen offsets
MaxFiltLen == 3   \* longest event sequence scanned with a time or database filter
MaxFiles == 3     \* longest file list given to SearchParallel
MaxParallel == 2  \* largest concurrency limit (config.Parallel)

------------------------------------------------------------------------------
(* Data. *)

\* uint32 arithmetic. TLC evaluates on 32-bit signed integers, so the modulus
\* 2^32 is represented by 2^30: every offset and timestamp of the explored
\* inputs is far below it, and a difference that underflows wraps to a value
\* above all of them, as it does in uint32.
Uint32(n) == n % 1073741824

\* models.GTIDPosition; present = FALSE is the nil pointer.
NoPosition ==
    [present |-> FALSE, BinlogFile |-> "", Position |-> 0, CommitPosition |-> 0,
     ResumePosition |-> 0, Timestamp |-> 0, GTID |-> "", ServerUUID |-> "",
     GNO |-> 0, Database |-> "", NextGTID |-> ""]

\* replication.BinlogEvent: header fields and the payload fields the code reads.
Ev(type, sid, gno, schema, query, logPos, size, ts) ==
    [type |-> type, SID |-> sid, GNO |-> gno, Schema |-> schema, Query |-> query,
     LogPos |-> logPos, EventSize |-> size, Timestamp |-> ts]

\* fmt.Sprintf("%x-%x-%x-%x-%x", SID...) : the textual server UUID of a SID.
UUIDString(sid) == "uuid" \o ToString(sid)

\* fmt.Sprintf("%s:%d", uuidStr, GNO)
GTIDString(sid, gno) == UUIDString(sid) \o ":" \o ToString(gno)

\* The target GTID set: uuid1:1-2.
TargetGTID == {GTIDString(1, 1), GTIDString(1, 2)}

\* Variant of Contain: the containment check is lost, every GTID matches.
ContainAlways(gtidStr) == TRUE

\* (*targetGTID).Contain(currentGTID) for the single-transaction set of gtidStr.
Contain(gtidStr) == gtidStr \in TargetGTID

startTimestamp == IF config.StartTime = 0 THEN 0 ELSE Uint32(config.StartTime)
endTimestamp == IF config.EndTime = 0 THEN 0 ELSE Uint32(config.EndTime)

------------------------------------------------------------------------------
(* The callback searchBinlogFile hands to ParseFile, on the state           *)
(* st = [result, currentTransaction, currentDatabase, err].                 *)

\* Variant of TimeFiltered: only the start-time bound filters.
TimeFilteredStartOnly(e) == startTimestamp > 0 /\ e.Timestamp < startTimestamp

\* Variant of TimeFiltered: only the end-time bound filters.
TimeFilteredEndOnly(e) == endTimestamp > 0 /\ e.Timestamp > endTimestamp

\* Time range filter: the event is skipped.
TimeFiltered(e) ==
    \/ startTimestamp > 0 /\ e.Timestamp < startTimestamp
    \/ endTimestamp > 0 /\ e.Timestamp > endTimestamp

\* Variant of TrackDatabase: the first schema seen is kept.
TrackDatabaseKeepFirst(db, e) ==
    IF e.type = "QUERY" /\ e.Schema # "" /\ db = "" THEN e.Schema ELSE db

\* Track database context from QueryEvent.
TrackDatabase(db, e) ==
    IF e.type = "QUERY" /\ e.Schema # "" THEN e.Schema ELSE db

\* The transaction opened by a GTID event of the target set.
OpenTransaction(filepath, e, db) ==
    [present |-> TRUE,
     BinlogFile |-> filepath,
     Position |-> Uint32(e.LogPos - e.EventSize),
     CommitPosition |-> e.LogPos,
     ResumePosition |-> e.LogPos,
     Timestamp |-> e.Timestamp,
     GTID |-> GTIDString(e.SID, e.GNO),
     ServerUUID |-> UUIDString(e.SID),
     GNO |-> e.GNO,
     Database |-> db,
     NextGTID |-> ""]

\* Variant of NextBoundary: resume at the start of the next GTID event.
NextBoundaryAtStart(res, e) ==
    [res EXCEPT !.NextGTID = GTIDString(e.SID, e.GNO),
                !.ResumePosition = Uint32(e.LogPos - e.EventSize)]

\* The completed result takes the next GTID and its END_LOG_POS.
NextBoundary(res, e) ==
    [res EXCEPT !.NextGTID = GTIDString(e.SID, e.GNO),
                !.ResumePosition = e.LogPos]

\* Variant of OnGTIDEvent: a GTID outside the target leaves the transaction
\* in flight open.
OnGTIDEventKeepsOpen(filepath, st, e) ==
    LET gtidStr == GTIDString(e.SID, e.GNO) IN
    IF Contain(gtidStr)
    THEN IF config.FilterDatabase # "" /\ st.currentDatabase # config.FilterDatabase
         THEN [st |-> [st EXCEPT !.currentTransaction = NoPosition], done |-> TRUE]
         ELSE [st |-> [st EXCEPT !.currentTransaction =
                                     OpenTransaction(filepath, e, st.currentDatabase)],
               done |-> FALSE]
    ELSE IF st.result.present /\ st.result.NextGTID = ""
         THEN [st |-> [st EXCEPT !.result = NextBoundary(@, e),
                                 !.err = "found_next_gtid"],
               done |-> TRUE]
         ELSE [st |-> st, done |-> FALSE]

\* Variant of OnGTIDEvent: the next GTID is recorded and the scan goes on.
OnGTIDEventNoStop(filepath, st, e) ==
    LET gtidStr == GTIDString(e.SID, e.GNO) IN
    IF Contain(gtidStr)
    THEN IF config.FilterDatabase # "" /\ st.currentDatabase # config.FilterDatabase
         THEN [st |-> [st EXCEPT !.currentTransaction = NoPosition], done |-> TRUE]
         ELSE [st |-> [st EXCEPT !.currentTransaction =
                                     OpenTransaction(filepath, e, st.currentDatabase)],
               done |-> FALSE]
    ELSE IF st.result.present /\ st.result.NextGTID = ""
         THEN [st |-> [st EXCEPT !.result = NextBoundary(@, e)], done |-> TRUE]
         ELSE [st |-> [st EXCEPT !.currentTransaction = NoPosition], done |-> FALSE]

\* The GTID event branch. done = TRUE: the callback returned inside the branch.
OnGTIDEvent(filepath, st, e) ==
    LET gtidStr == GTIDString(e.SID, e.GNO) IN
    IF Contain(gtidStr)
    THEN IF config.FilterDatabase # "" /\ st.currentDatabase # config.FilterDatabase
         THEN [st |-> [st EXCEPT !.currentTransaction = NoPosition], done |-> TRUE]
         ELSE [st |-> [st EXCEPT !.currentTransaction =
                                     OpenTransaction(filepath, e, st.currentDatabase)],
               done |-> FALSE]
    ELSE IF st.result.present /\ st.result.NextGTID = ""
         THEN [st |-> [st EXCEPT !.result = NextBoundary(@, e),
                                 !.err = "found_next_gtid"],
               done |-> TRUE]
         ELSE [st |-> [st EXCEPT !.currentTransaction = NoPosition], done |-> FALSE]

\* Variant of Committed: the resume position is not reset to the commit.
CommittedKeepsResume(txn, e) ==
    [txn EXCEPT !.CommitPosition = e.LogPos,
                !.Timestamp = e.Timestamp]

\* The commit of the transaction being tracked: positions and timestamp.
Committed(txn, e) ==
    [txn EXCEPT !.CommitPosition = e.LogPos,
                !.ResumePosition = e.LogPos,
                !.Timestamp = e.Timestamp]

\* Variant of KeepHighest: the transaction that committed last is kept.
KeepLatest(res, txn) == txn

\* Variant of KeepHighest: the start offset of the earlier match is kept.
KeepHighestMixed(res, txn) ==
    IF ~res.present THEN txn
    ELSE IF txn.GNO > res.GNO THEN [txn EXCEPT !.Position = res.Position]
    ELSE res

\* Keep the match with highest GNO.
KeepHighest(res, txn) ==
    IF ~res.present \/ txn.GNO > res.GNO THEN txn ELSE res

\* Variant of TrackTransactionEnd: a commit with no transaction in flight
\* drops the best match.
TrackTransactionEndDropsBest(st, e) ==
    IF ~st.currentTransaction.present
    THEN IF e.type = "XID" THEN [st EXCEPT !.result = NoPosition] ELSE st
    ELSE IF e.type = "XID"
         THEN [st EXCEPT !.result = KeepHighest(@, Committed(st.currentTransaction, e)),
                         !.currentTransaction = NoPosition]
    ELSE IF e.type = "QUERY" /\ (e.Query = "COMMIT" \/ e.Query = "commit")
         THEN [st EXCEPT !.result = KeepHighest(@, Committed(st.currentTransaction, e)),
                         !.currentTransaction = NoPosition]
    ELSE st

\* Variant of TrackTransactionEnd: only XID_EVENT ends a transaction.
TrackTransactionEndXidOnly(st, e) ==
    IF ~st.currentTransaction.present THEN st
    ELSE IF e.type = "XID"
         THEN [st EXCEPT !.result = KeepHighest(@, Committed(st.currentTransaction, e)),
                         !.currentTransaction = NoPosition]
    ELSE st

\* Track transaction end (XID_EVENT or COMMIT).
TrackTransactionEnd(st, e) ==
    IF ~st.currentTransaction.present THEN st
    ELSE IF e.type = "XID"
         THEN [st EXCEPT !.result = KeepHighest(@, Committed(st.currentTransaction, e)),
                         !.currentTransaction = NoPosition]
    ELSE IF e.type = "QUERY" /\ (e.Query = "COMMIT" \/ e.Query = "commit")
         THEN [st EXCEPT !.result = KeepHighest(@, Committed(st.currentTransaction, e)),
                         !.currentTransaction = NoPosition]
    ELSE st

\* The whole callback for one event.
OnEvent(filepath, st, e) ==
    IF TimeFiltered(e) THEN st
    ELSE LET s1 == [st EXCEPT !.currentDatabase = TrackDatabase(@, e)]
             g == IF e.type = "GTID" THEN OnGTIDEvent(filepath, s1, e)
                                     ELSE [st |-> s1, done |-> FALSE]
         IN IF g.done THEN g.st ELSE TrackTransactionEnd(g.st, e)

\* Variant of ReturnOf: the result found so far is returned with the error.
ReturnOfKeepsResult(err, res) ==
    IF err # "" /\ err # "found_next_gtid"
    THEN [pos |-> res, err |-> err]
    ELSE [pos |-> res, err |-> ""]

\* The values searchBinlogFile returns for ParseFile's err and the final result.
ReturnOf(err, res) ==
    IF err # "" /\ err # "found_next_gtid"
    THEN [pos |-> NoPosition, err |-> err]
    ELSE [pos |-> res, err |-> ""]

------------------------------------------------------------------------------
(* Event sequences the tracker is run on. *)

GTIDEv(sid, gno, logPos, size, ts) == Ev("GTID", sid, gno, "", "", logPos, size, ts)
XIDEv(logPos, size, ts) == Ev("XID", 0, 0, "", "", logPos, size, ts)
QueryEv(schema, query, logPos, size, ts) == Ev("QUERY", 0, 0, schema, query, logPos, size, ts)
RowsEv(logPos, size, ts) == Ev("ROWS", 0, 0, "", "", logPos, size, ts)

\* Event kinds: everything of an event but its place in the file.
Kinds ==
    {GTIDEv(1, 1, 0, 0, 5), GTIDEv(1, 2, 0, 0, 5), GTIDEv(1, 3, 0, 0, 5),
     GTIDEv(2, 1, 0, 0, 5), XIDEv(0, 0, 5), QueryEv("", "COMMIT", 0, 0, 5),
     RowsEv(0, 0, 5)}

\* A file laid out as the server writes it: events of 10 bytes from offset 4.
LaidOut(kinds) ==
    [i \in 1..Len(kinds) |->
        [kinds[i] EXCEPT !.LogPos = 4 + 10 * i, !.EventSize = 10]]

SeqsUpTo(S, n) == UNION {[1..k -> S] : k \in 0..n}

NoFilter ==
    [FilterDatabase |-> "", StartTime |-> 0, EndTime |-> 0, Parallel |-> 1,
     Verbose |-> FALSE, StartFile |-> ""]

\* Unfiltered scans of laid-out files whose stream ends normally.
PlainInputs ==
    {[config |-> NoFilter, events |-> LaidOut(ks), ioError |-> FALSE] :
        ks \in SeqsUpTo(Kinds, MaxLen)}

\* Unfiltered scans of laid-out files whose stream fails after the last event.
FailingInputs ==
    {[config |-> NoFilter, events |-> LaidOut(ks), ioError |-> TRUE] :
        ks \in SeqsUpTo(Kinds, MaxOffLen)}

\* Events with any end offset and size, as the tests' mock parser delivers them:
\* offsets may decrease and a size may exceed its end offset.
OffsetKinds ==
    {Ev(k.type, k.SID, k.GNO, "", "", pos, size, 5) :
        k \in {GTIDEv(1, 1, 0, 0, 5), GTIDEv(1, 3, 0, 0, 5), XIDEv(0, 0, 5)},
        pos \in {10, 20, 30}, size \in {10, 30}}

OffsetInputs ==
    {[config |-> NoFilter, events |-> es, ioError |-> FALSE] :
        es \in SeqsUpTo(OffsetKinds, MaxOffLen)}

\* Scans with a database filter.
DbKinds ==
    {GTIDEv(1, 1, 0, 0, 5), GTIDEv(1, 2, 0, 0, 5), GTIDEv(1, 3, 0, 0, 5),
     XIDEv(0, 0, 5), QueryEv("db1", "BEGIN", 0, 0, 5), QueryEv("db2", "BEGIN", 0, 0, 5)}

DbInputs ==
    {[config |-> [NoFilter EXCEPT !.FilterDatabase = "db1"],
      events |-> LaidOut(ks), ioError |-> FALSE] :
        ks \in SeqsUpTo(DbKinds, MaxFiltLen)}

\* Scans with time bounds: timestamps before, at and after the bound 5.
TimeKinds ==
    {[k EXCEPT !.Timestamp = ts] :
        k \in {GTIDEv(1, 1, 0, 0, 5), GTIDEv(1, 3, 0, 0, 5), XIDEv(0, 0, 5)},
        ts \in {4, 5, 6}}

TimeInputs ==
    {[config |-> c, events |-> LaidOut(ks), ioError |-> FALSE] :
        c \in {[NoFilter EXCEPT !.StartTime = 5], [NoFilter EXCEPT !.EndTime = 5],
               [NoFilter EXCEPT !.StartTime = 5, !.EndTime = 5]},
        ks \in SeqsUpTo(TimeKinds, MaxFiltLen)}

MaxDbTxns == 2    \* most transactions of a file scanned with a database filter

\* One transaction as the server logs it: an optional query event that names
\* the schema, the GTID event, the XID event.
DbBlocks ==
    {(IF db = "" THEN <<>> ELSE <<QueryEv(db, "BEGIN", 0, 0, 5)>>)
         \o <<GTIDEv(1, g, 0, 0, 5), XIDEv(0, 0, 5)>> :
        db \in {"", "db1", "db2"}, g \in 1..3}

RECURSIVE DbTxnSeqs(_)
DbTxnSeqs(n) ==
    IF n = 0 THEN {<<>>}
    ELSE LET shorter == DbTxnSeqs(n - 1)
         IN shorter \cup {p \o b : p \in shorter, b \in DbBlocks}

\* Scans of whole transactions with a database filter.
DbTxnInputs ==
    {[config |-> [NoFilter EXCEPT !.FilterDatabase = "db1"],
      events |-> LaidOut(ks), ioError |-> FALSE] :
        ks \in DbTxnSeqs(MaxDbTxns)}



------------------------------------------------------------------------------
(* searchBinlogFile, one event at a time. *)

\* CheckPreviousGTIDs is not running.
HeaderIdle ==
    /\ previousGTIDs = [present |-> FALSE, set |-> {}]
    /\ foundHeader = FALSE
    /\ hpc = "idle"
    /\ skipped = FALSE

\* FindStartFileUsingHeaders is not running.
SelectorIdle ==
    /\ searchI = 0
    /\ searchJ = 0
    /\ probes = <<>>
    /\ spc = "idle"
    /\ selRet = ""
    /\ selErr = ""

\* RemoteSearcher.Search is not running.
RemoteIdle ==
    /\ stream = [events |-> <<>>, ending |-> "timeout", syncError |-> FALSE]
    /\ startFile = ""
    /\ rpc = "idle"
    /\ remoteIdx = 1
    /\ remoteResult = NoPosition
    /\ remoteDatabase = ""
    /\ remoteTransaction = NoPosition
    /\ remoteRetPos = NoPosition
    /\ remoteRetErr = ""

\* CSVExporter.Export is not running.
ExportIdle ==
    /\ positions = <<>>
    /\ IncludeHeader = TRUE
    /\ written = <<>>
    /\ exportIdx = 1
    /\ epc = "idle"
    /\ exportErr = ""

\* parseFlags with no flag given: the defaults.
NoFlags ==
    [BinlogDir |-> "", Host |-> "", User |-> "", Password |-> "", TargetGTID |-> "",
     GTIDFile |-> "", FindActiveMaster |-> FALSE, StartFile |-> "",
     OutputFormat |-> "console", Parallel |-> 4]

\* main is not running.
CliIdle ==
    /\ cfg = NoFlags
    /\ cliPc = "idle"
    /\ cliErr = ""

\* SearchParallel is not running.
ParallelIdle ==
    /\ files = <<>>
    /\ mainPc = "idle"
    /\ launched = 0
    /\ taskPc = <<>>
    /\ semaphore = 0
    /\ wg = 0
    /\ cancelled = FALSE
    /\ resultChan = <<>>
    /\ resultRecv = 0
    /\ errorChan = <<>>
    /\ errorRecv = 0
    /\ closerPc = "idle"
    /\ bestResult = NoPosition
    /\ spRet = NoPosition
    /\ spErr = ""
    /\ firstRet = [returned |-> FALSE, pos |-> NoPosition]

\* searchBinlogFile("test-file", target) is entered on the file of inp.
TrackerEntered(inp) ==
        /\ file = [name |-> "test-file", events |-> inp.events, ioError |-> inp.ioError]
        /\ idx = 1
        /\ result = NoPosition
        /\ currentDatabase = ""
        /\ currentTransaction = NoPosition
        /\ parseErr = ""
        /\ tpc = "parsing"
        /\ retPos = NoPosition
        /\ retErr = ""

TrackerStart(inp) ==
        /\ config = inp.config
        /\ TrackerEntered(inp)
        /\ ParallelIdle
        /\ HeaderIdle
        /\ SelectorIdle
        /\ RemoteIdle
        /\ ExportIdle
        /\ CliIdle

TrackerInit ==
    \/ \E inp \in PlainInputs : TrackerStart(inp)
    \/ \E inp \in FailingInputs : TrackerStart(inp)
    \/ \E inp \in OffsetInputs : TrackerStart(inp)
    \/ \E inp \in DbInputs : TrackerStart(inp)
    \/ \E inp \in TimeInputs : TrackerStart(inp)
    \/ \E inp \in DbTxnInputs : TrackerStart(inp)

\* ParseFile decodes the next event and invokes the callback on it.
ParseEvent ==
    /\ tpc = "parsing"
    /\ idx <= Len(file.events)
    /\ LET st == [result |-> result, currentTransaction |-> currentTransaction,
                  currentDatabase |-> currentDatabase, err |-> ""]
           nx == OnEvent(file.name, st, file.events[idx])
       IN /\ result' = nx.result
          /\ currentTransaction' = nx.currentTransaction
          /\ currentDatabase' = nx.currentDatabase
          /\ parseErr' = nx.err
          /\ tpc' = IF nx.err # "" THEN "parsed" ELSE "parsing"
          /\ idx' = idx + 1
    /\ UNCHANGED <<cliVars, exportVars, config, file, retPos, retErr, parallelVars, headerVars, selectorVars,
                   remoteVars>>

\* ParseFile reaches the end of the stream, or the stream fails.
ParseEnd ==
    /\ tpc = "parsing"
    /\ idx > Len(file.events)
    /\ parseErr' = IF file.ioError THEN "io error" ELSE ""
    /\ tpc' = "parsed"
    /\ UNCHANGED <<cliVars, exportVars, config, file, idx, result, currentDatabase, currentTransaction,
                   retPos, retErr, parallelVars, headerVars, selectorVars,
                   remoteVars>>

\* searchBinlogFile returns.
Return ==
    /\ tpc = "parsed"
    /\ retPos' = ReturnOf(parseErr, result).pos
    /\ retErr' = ReturnOf(parseErr, result).err
    /\ tpc' = "returned"
    /\ UNCHANGED <<cliVars, exportVars, config, file, idx, result, currentDatabase, currentTransaction,
                   parseErr, parallelVars, headerVars, selectorVars,
                   remoteVars>>

TrackerNext == ParseEvent \/ ParseEnd \/ Return

TrackerSpec == TrackerInit /\ [][TrackerNext]_vars

------------------------------------------------------------------------------
(* searchBinlogFile as SearchParallel calls it: the whole scan of one file. *)

\* parser.ParseFile: the callback on each event in order, until the callback
\* returns an error, the stream ends, or the stream fails.
RECURSIVE ParseFile(_, _, _)
ParseFile(f, i, st) ==
    IF i > Len(f.events)
    THEN [st EXCEPT !.err = IF f.ioError THEN "io error" ELSE ""]
    ELSE LET nx == OnEvent(f.name, st, f.events[i])
         IN IF nx.err # "" THEN nx ELSE ParseFile(f, i + 1, nx)

searchBinlogFile(f) ==
    LET fin == ParseFile(f, 1, [result |-> NoPosition,
                                currentTransaction |-> NoPosition,
                                currentDatabase |-> "", err |-> ""])
    IN ReturnOf(fin.err, fin.result)

------------------------------------------------------------------------------
(* SearchParallel. *)

\* File contents: a committed transaction of the target set (gno 1 or 2), one
\* followed by the next GTID, a transaction outside the set, an unreadable file.
Bodies ==
    {[events |-> LaidOut(<<GTIDEv(1, 1, 0, 0, 5), XIDEv(0, 0, 5)>>), ioError |-> FALSE],
     [events |-> LaidOut(<<GTIDEv(1, 2, 0, 0, 5), XIDEv(0, 0, 5), GTIDEv(1, 3, 0, 0, 5)>>),
      ioError |-> FALSE],
     [events |-> LaidOut(<<GTIDEv(1, 3, 0, 0, 5), XIDEv(0, 0, 5)>>), ioError |-> FALSE],
     [events |-> <<>>, ioError |-> TRUE]}

FileLists ==
    {[i \in 1..Len(bs) |->
        [name |-> "file" \o ToString(i), events |-> bs[i].events,
         ioError |-> bs[i].ioError]] :
        bs \in UNION {[1..n -> Bodies] : n \in 1..MaxFiles}}

Tasks == 1..Len(files)

\* The state in which SearchParallel(fs, target) is entered.
Entered(fs) ==
    /\ files = fs
    /\ mainPc = "launch"
    /\ launched = 0
    /\ taskPc = [i \in 1..Len(fs) |-> "unstarted"]
    /\ semaphore = 0
    /\ wg = 0
    /\ cancelled = FALSE
    /\ resultChan = <<>>
    /\ resultRecv = 0
    /\ errorChan = <<>>
    /\ errorRecv = 0
    /\ closerPc = "unstarted"
    /\ bestResult = NoPosition
    /\ spRet = NoPosition
    /\ spErr = ""

ParallelInit ==
    /\ \E fs \in FileLists, n \in 1..MaxParallel, v \in BOOLEAN :
           /\ config = [NoFilter EXCEPT !.Parallel = n, !.Verbose = v]
           /\ Entered(fs)
    /\ firstRet = [returned |-> FALSE, pos |-> NoPosition]
    /\ file = [name |-> "", events |-> <<>>, ioError |-> FALSE]
    /\ idx = 1
    /\ result = NoPosition
    /\ currentDatabase = ""
    /\ currentTransaction = NoPosition
    /\ parseErr = ""
    /\ tpc = "idle"
    /\ retPos = NoPosition
    /\ retErr = ""
    /\ HeaderIdle
    /\ SelectorIdle
    /\ RemoteIdle
    /\ ExportIdle
    /\ CliIdle

\* for i, file := range files { wg.Add(1); go func(...) }, then
\* go func() { wg.Wait(); close(resultChan); close(errorChan) }().
\* Starting a goroutine commutes with the steps of those already started, so
\* the loop is one step.
Launch ==
    /\ mainPc = "launch"
    /\ launched' = Len(files)
    /\ wg' = wg + Len(files)
    /\ taskPc' = [i \in Tasks |-> "acquire"]
    /\ closerPc' = "wait"
    /\ mainPc' = "collect"
    /\ UNCHANGED <<cliVars, exportVars, config, trackerVars, headerVars, selectorVars, remoteVars, files, semaphore, cancelled, resultChan,
                   resultRecv, errorChan, errorRecv, bestResult, spRet, spErr,
                   firstRet>>

\* Variant of SemaphoreHasRoom: the channel takes any number of tokens.
SemaphoreUnbounded == TRUE

\* A send on semaphore (capacity config.Parallel) can proceed.
SemaphoreHasRoom == semaphore < config.Parallel

\* semaphore <- struct{}{}
Acquire(i) ==
    /\ taskPc[i] = "acquire"
    /\ SemaphoreHasRoom
    /\ semaphore' = semaphore + 1
    /\ taskPc' = [taskPc EXCEPT ![i] = "check"]
    /\ UNCHANGED <<cliVars, exportVars, config, trackerVars, headerVars, selectorVars, remoteVars, files, mainPc, launched, wg, cancelled,
                   resultChan, resultRecv, errorChan, errorRecv, closerPc,
                   bestResult, spRet, spErr, firstRet>>

\* Variant of AfterCheck: the goroutine goes on to scan in either case.
AfterCheckAlwaysScan(done) == "scan"

\* Where the goroutine goes from the select: return when ctx is done.
AfterCheck(done) == IF done THEN "release" ELSE "scan"

\* select { case <-ctx.Done(): return; default: }
CheckCancelled(i) ==
    /\ taskPc[i] = "check"
    /\ taskPc' = [taskPc EXCEPT ![i] = AfterCheck(cancelled)]
    /\ UNCHANGED <<cliVars, exportVars, config, trackerVars, headerVars, selectorVars, remoteVars, files, mainPc, launched, semaphore, wg,
                   cancelled, resultChan, resultRecv, errorChan, errorRecv,
                   closerPc, bestResult, spRet, spErr, firstRet>>

\* Variant of AfterScan: every goroutine that has scanned calls cancel().
AfterScanCancelAlways(out) == "cancel"

\* Variant of AfterScan: the error path also goes on to cancel().
AfterScanCancelOnError(out) ==
    IF out.err # "" THEN "cancel"
    ELSE IF out.pos.present THEN "cancel"
    ELSE "release"

\* Where the goroutine goes once searchBinlogFile has returned out.
AfterScan(out) ==
    IF out.err # "" THEN "release"
    ELSE IF out.pos.present THEN "cancel"
    ELSE "release"

\* Variant of ScannedFile: the goroutine reads the loop variable, which
\* holds the last file once the loop has ended.
ScannedFileLoopVariable(i) == files[Len(files)]

\* go func(idx int, filepath string) {...}(i, file): the file of goroutine i.
ScannedFile(i) == files[i]

\* result, err := s.searchBinlogFile(filepath, targetGTID), and the send of
\* the error or of the result.
Scan(i) ==
    /\ taskPc[i] = "scan"
    /\ LET out == searchBinlogFile(ScannedFile(i))
       IN /\ errorChan' = IF out.err # ""
                          THEN Append(errorChan,
                                      "error scanning " \o ScannedFile(i).name
                                          \o ": " \o out.err)
                          ELSE errorChan
          /\ resultChan' = IF out.err = "" /\ out.pos.present
                           THEN Append(resultChan, out.pos)
                           ELSE resultChan
          /\ taskPc' = [taskPc EXCEPT ![i] = AfterScan(out)]
    /\ UNCHANGED <<cliVars, exportVars, config, trackerVars, headerVars, selectorVars, remoteVars, files, mainPc, launched, semaphore, wg,
                   cancelled, resultRecv, errorRecv, closerPc, bestResult,
                   spRet, spErr, firstRet>>

\* cancel() // Stop other goroutines
Cancel(i) ==
    /\ taskPc[i] = "cancel"
    /\ cancelled' = TRUE
    /\ taskPc' = [taskPc EXCEPT ![i] = "release"]
    /\ UNCHANGED <<cliVars, exportVars, config, trackerVars, headerVars, selectorVars, remoteVars, files, mainPc, launched, semaphore, wg,
                   resultChan, resultRecv, errorChan, errorRecv, closerPc,
                   bestResult, spRet, spErr, firstRet>>

\* Variant of Released: the token stays in the channel.
ReleasedNever(tokens) == tokens

\* defer func() { <-semaphore }(): one token is taken out of the channel.
Released(tokens) == tokens - 1

\* The deferred calls of the goroutine: <-semaphore, then wg.Done().
Exit(i) ==
    /\ taskPc[i] = "release"
    /\ semaphore' = Released(semaphore)
    /\ wg' = wg - 1
    /\ taskPc' = [taskPc EXCEPT ![i] = "finished"]
    /\ UNCHANGED <<cliVars, exportVars, config, trackerVars, headerVars, selectorVars, remoteVars, files, mainPc, launched, cancelled,
                   resultChan, resultRecv, errorChan, errorRecv, closerPc,
                   bestResult, spRet, spErr, firstRet>>

\* Variant of WaitReturns: the closer does not wait for the goroutines.
WaitReturnsAtOnce == TRUE

\* wg.Wait() returns when the counter is zero.
WaitReturns == wg = 0

\* wg.Wait(); close(resultChan)
CloseResults ==
    /\ closerPc = "wait"
    /\ WaitReturns
    /\ closerPc' = "closedResults"
    /\ UNCHANGED <<cliVars, exportVars, config, trackerVars, headerVars, selectorVars, remoteVars, files, mainPc, launched, taskPc, semaphore,
                   wg, cancelled, resultChan, resultRecv, errorChan, errorRecv,
                   bestResult, spRet, spErr, firstRet>>

\* close(errorChan)
CloseErrors ==
    /\ closerPc = "closedResults"
    /\ closerPc' = "closedAll"
    /\ UNCHANGED <<cliVars, exportVars, config, trackerVars, headerVars, selectorVars, remoteVars, files, mainPc, launched, taskPc, semaphore,
                   wg, cancelled, resultChan, resultRecv, errorChan, errorRecv,
                   bestResult, spRet, spErr, firstRet>>

\* Variant of Better: the first result received is kept.
BetterFirstOnly(best, res) == ~best.present

\* if bestResult == nil || result.GNO > bestResult.GNO
Better(best, res) == ~best.present \/ res.GNO > best.GNO

\* for result := range resultChan: one received value.
Collect ==
    /\ mainPc = "collect"
    /\ resultRecv < Len(resultChan)
    /\ LET res == resultChan[resultRecv + 1]
       IN bestResult' = IF res.present /\ Better(bestResult, res)
                        THEN res ELSE bestResult
    /\ resultRecv' = resultRecv + 1
    /\ UNCHANGED <<cliVars, exportVars, config, trackerVars, headerVars, selectorVars, remoteVars, files, mainPc, launched, taskPc, semaphore,
                   wg, cancelled, resultChan, errorChan, errorRecv, closerPc,
                   spRet, spErr, firstRet>>

\* The range over resultChan ends: the channel is closed and drained.
CollectEnd ==
    /\ mainPc = "collect"
    /\ resultRecv = Len(resultChan)
    /\ closerPc \in {"closedResults", "closedAll"}
    /\ mainPc' = IF config.Verbose THEN "warn" ELSE "return"
    /\ UNCHANGED <<cliVars, exportVars, config, trackerVars, headerVars, selectorVars, remoteVars, files, launched, taskPc, semaphore, wg,
                   cancelled, resultChan, resultRecv, errorChan, errorRecv,
                   closerPc, bestResult, spRet, spErr, firstRet>>

\* if s.verbose { for err := range errorChan { print warning } }
Warn ==
    /\ mainPc = "warn"
    /\ \/ /\ errorRecv < Len(errorChan)
          /\ errorRecv' = errorRecv + 1
          /\ mainPc' = mainPc
       \/ /\ errorRecv = Len(errorChan)
          /\ closerPc = "closedAll"
          /\ errorRecv' = errorRecv
          /\ mainPc' = "return"
    /\ UNCHANGED <<cliVars, exportVars, config, trackerVars, headerVars, selectorVars, remoteVars, files, launched, taskPc, semaphore, wg,
                   cancelled, resultChan, resultRecv, errorChan, closerPc,
                   bestResult, spRet, spErr, firstRet>>

\* return bestResult, nil; and the deferred cancel()
ReturnBest ==
    /\ mainPc = "return"
    /\ spRet' = bestResult
    /\ spErr' = ""
    /\ cancelled' = TRUE
    /\ mainPc' = "returned"
    /\ UNCHANGED <<cliVars, exportVars, config, trackerVars, headerVars, selectorVars, remoteVars, files, launched, taskPc, semaphore, wg,
                   resultChan, resultRecv, errorChan, errorRecv, closerPc,
                   bestResult, firstRet>>

ParallelNext ==
    \/ Launch
    \/ \E i \in Tasks : Acquire(i)
    \/ \E i \in Tasks : CheckCancelled(i)
    \/ \E i \in Tasks : Scan(i)
    \/ \E i \in Tasks : Cancel(i)
    \/ \E i \in Tasks : Exit(i)
    \/ CloseResults
    \/ CloseErrors
    \/ Collect
    \/ CollectEnd
    \/ Warn
    \/ ReturnBest

ParallelSpec == ParallelInit /\ [][ParallelNext]_vars

MaxFairFiles == 2   \* longest file list of the runs checked for termination

\* SearchParallel is entered on a list of at most MaxFairFiles files; the
\* files that match hold the same transaction.
ParallelFairInit ==
    /\ ParallelInit
    /\ Len(files) <= MaxFairFiles
    /\ \A i \in Tasks : searchBinlogFile(files[i]).pos.GNO <= 1

\* The scheduler runs a goroutine that can take a step.
ParallelFairSpec ==
    ParallelFairInit /\ [][ParallelNext]_vars /\ WF_vars(ParallelNext)

\* SearchParallel is called once more over the same files and target, with
\* any concurrency limit; what the first call returned is kept for comparison.
SearchAgain ==
    /\ mainPc = "returned"
    /\ ~firstRet.returned
    /\ UNCHANGED <<cliVars, exportVars>>
    /\ firstRet' = [returned |-> TRUE, pos |-> spRet]
    /\ \E n \in 1..MaxParallel : config' = [config EXCEPT !.Parallel = n]
    /\ mainPc' = "launch"
    /\ launched' = 0
    /\ taskPc' = [i \in Tasks |-> "unstarted"]
    /\ semaphore' = 0
    /\ wg' = 0
    /\ cancelled' = FALSE
    /\ resultChan' = <<>>
    /\ resultRecv' = 0
    /\ errorChan' = <<>>
    /\ errorRecv' = 0
    /\ closerPc' = "unstarted"
    /\ bestResult' = NoPosition
    /\ spRet' = NoPosition
    /\ spErr' = ""
    /\ UNCHANGED <<trackerVars, files, headerVars, selectorVars, remoteVars>>

RerunNext == ParallelNext \/ SearchAgain

RerunSpec == ParallelInit /\ [][RerunNext]_vars

------------------------------------------------------------------------------
(* CheckPreviousGTIDs: the probe of one file's header. *)

MaxHeaderLen == 3   \* longest event stream of a probed file
MaxSelFiles == 5    \* longest file list given to FindStartFileUsingHeaders

\* searchBinlogFile is not running.
TrackerIdle ==
    /\ idx = 1
    /\ result = NoPosition
    /\ currentDatabase = ""
    /\ currentTransaction = NoPosition
    /\ parseErr = ""
    /\ tpc = "idle"
    /\ retPos = NoPosition
    /\ retErr = ""

\* A header event: its type and, for PREVIOUS_GTIDS_EVENT, the GTIDSets text.
HeaderEv(type, gtidSets) == [type |-> type, GTIDSets |-> gtidSets]

\* mysql.ParseMysqlGTIDSet on the texts a previous-GTIDs event carries here:
\* intervals of uuid1 and uuid2, the empty text, and a text that does not parse.
ParseMysqlGTIDSet(text) ==
    CASE text = "" -> [err |-> FALSE, set |-> {}]
      [] text = "uuid1:1" -> [err |-> FALSE, set |-> {GTIDString(1, 1)}]
      [] text = "uuid1:1-2" ->
             [err |-> FALSE, set |-> {GTIDString(1, g) : g \in 1..2}]
      [] text = "uuid1:1-3" ->
             [err |-> FALSE, set |-> {GTIDString(1, g) : g \in 1..3}]
      [] text = "uuid1:2" -> [err |-> FALSE, set |-> {GTIDString(1, 2)}]
      [] text = "uuid1:3" -> [err |-> FALSE, set |-> {GTIDString(1, 3)}]
      [] text = "uuid1:2-3" ->
             [err |-> FALSE, set |-> {GTIDString(1, g) : g \in 2..3}]
      [] text = "uuid1:1:3" ->
             [err |-> FALSE, set |-> {GTIDString(1, 1), GTIDString(1, 3)}]
      [] text = "uuid2:1-3" ->
             [err |-> FALSE, set |-> {GTIDString(2, g) : g \in 1..3}]
      [] OTHER -> [err |-> TRUE, set |-> {}]

\* Variant of PreviousContains: one common GTID is enough.
PreviousContainsAny(prev) == prev \cap TargetGTID # {}

\* (*previousGTIDs).Contain(*targetGTID): every target GTID is in prev.
PreviousContains(prev) == TargetGTID \subseteq prev

\* The callback CheckPreviousGTIDs hands to ParseFile, on the state
\* hs = [previousGTIDs, foundHeader, err].
OnHeaderEvent(hs, e) ==
    IF e.type = "PREVIOUS_GTIDS"
    THEN LET parsed == ParseMysqlGTIDSet(e.GTIDSets) IN
         IF parsed.err
         THEN [hs EXCEPT !.err = "failed to parse GTID set"]
         ELSE [previousGTIDs |-> [present |-> TRUE, set |-> parsed.set],
               foundHeader |-> TRUE,
               err |-> "stop_scan"]
    ELSE hs

\* What CheckPreviousGTIDs returns for ParseFile's err and the callback state.
HeaderReturnOf(err, hs) ==
    IF err # "" /\ err # "stop_scan" THEN [skipped |-> FALSE, err |-> err]
    ELSE IF ~hs.foundHeader \/ ~hs.previousGTIDs.present
         THEN [skipped |-> FALSE, err |-> ""]
    ELSE [skipped |-> PreviousContains(hs.previousGTIDs.set), err |-> ""]

\* Events of a file's stream as the probe sees them.
HeaderKinds ==
    {HeaderEv("FORMAT_DESCRIPTION", ""), HeaderEv("GTID", ""),
     HeaderEv("PREVIOUS_GTIDS", ""), HeaderEv("PREVIOUS_GTIDS", "uuid1:1"),
     HeaderEv("PREVIOUS_GTIDS", "uuid1:1-2"), HeaderEv("PREVIOUS_GTIDS", "uuid1:1-3"),
     HeaderEv("PREVIOUS_GTIDS", "uuid2:1-3"), HeaderEv("PREVIOUS_GTIDS", "garbage")}

\* Probed files: any stream of header events, ending normally or failing.
HeaderFiles ==
    {[name |-> "dummy", events |-> es, ioError |-> io] :
        es \in SeqsUpTo(HeaderKinds, MaxHeaderLen), io \in BOOLEAN}

HeaderInit ==
    /\ config = NoFilter
    /\ file \in HeaderFiles
    /\ previousGTIDs = [present |-> FALSE, set |-> {}]
    /\ foundHeader = FALSE
    /\ hpc = "parsing"
    /\ skipped = FALSE
    /\ TrackerIdle
    /\ ParallelIdle
    /\ SelectorIdle
    /\ RemoteIdle
    /\ ExportIdle
    /\ CliIdle

\* ParseFile decodes the next event and invokes the callback on it.
HeaderEvent ==
    /\ hpc = "parsing"
    /\ idx <= Len(file.events)
    /\ LET hs == [previousGTIDs |-> previousGTIDs, foundHeader |-> foundHeader,
                  err |-> ""]
           nx == OnHeaderEvent(hs, file.events[idx])
       IN /\ previousGTIDs' = nx.previousGTIDs
          /\ foundHeader' = nx.foundHeader
          /\ parseErr' = nx.err
          /\ hpc' = IF nx.err # "" THEN "parsed" ELSE "parsing"
          /\ idx' = idx + 1
    /\ UNCHANGED <<cliVars, exportVars, config, file, result, currentDatabase, currentTransaction, tpc,
                   retPos, retErr, skipped, parallelVars, selectorVars, remoteVars>>

\* ParseFile reaches the end of the stream, or the stream fails.
HeaderEnd ==
    /\ hpc = "parsing"
    /\ idx > Len(file.events)
    /\ parseErr' = IF file.ioError THEN "io error" ELSE ""
    /\ hpc' = "parsed"
    /\ UNCHANGED <<cliVars, exportVars, config, file, idx, result, currentDatabase, currentTransaction,
                   tpc, retPos, retErr, previousGTIDs, foundHeader, skipped,
                   parallelVars, selectorVars, remoteVars>>

\* CheckPreviousGTIDs returns.
HeaderReturn ==
    /\ hpc = "parsed"
    /\ LET out == HeaderReturnOf(parseErr, [previousGTIDs |-> previousGTIDs,
                                            foundHeader |-> foundHeader])
       IN /\ skipped' = out.skipped
          /\ retErr' = out.err
    /\ hpc' = "returned"
    /\ UNCHANGED <<cliVars, exportVars, config, file, idx, result, currentDatabase, currentTransaction,
                   parseErr, tpc, retPos, previousGTIDs, foundHeader,
                   parallelVars, selectorVars, remoteVars>>

HeaderNext == HeaderEvent \/ HeaderEnd \/ HeaderReturn

HeaderSpec == HeaderInit /\ [][HeaderNext]_vars

------------------------------------------------------------------------------
(* FindStartFileUsingHeaders: binary search over the probes of the files. *)

\* parser.ParseFile under CheckPreviousGTIDs' callback, over the whole stream.
RECURSIVE ParseFileHeader(_, _, _)
ParseFileHeader(f, i, hs) ==
    IF i > Len(f.events)
    THEN [hs EXCEPT !.err = IF f.ioError THEN "io error" ELSE ""]
    ELSE LET nx == OnHeaderEvent(hs, f.events[i])
         IN IF nx.err # "" THEN nx ELSE ParseFileHeader(f, i + 1, nx)

CheckPreviousGTIDs(f) ==
    LET fin == ParseFileHeader(f, 1, [previousGTIDs |-> [present |-> FALSE, set |-> {}],
                                      foundHeader |-> FALSE, err |-> ""])
    IN HeaderReturnOf(fin.err, fin)

\* Variant of ProbeSaysSkip: a probe that fails says skip.
ProbeSaysSkipOnError(out) == IF out.err # "" THEN TRUE ELSE out.skipped

\* The predicate sortSearch evaluates: false on error, else skipped.
ProbeSaysSkip(out) == IF out.err # "" THEN FALSE ELSE out.skipped

\* Headers of the files of a list: a previous-GTIDs set that does not contain
\* the target, one that does, one behind a format description event, a stream
\* that ends without the event, and a stream that fails.
SelBodies ==
    {[events |-> <<HeaderEv("PREVIOUS_GTIDS", "uuid1:1")>>, ioError |-> FALSE],
     [events |-> <<HeaderEv("PREVIOUS_GTIDS", "uuid1:1-3")>>, ioError |-> FALSE],
     [events |-> <<HeaderEv("FORMAT_DESCRIPTION", ""),
                   HeaderEv("PREVIOUS_GTIDS", "uuid1:1-2")>>, ioError |-> FALSE],
     [events |-> <<HeaderEv("FORMAT_DESCRIPTION", "")>>, ioError |-> FALSE],
     [events |-> <<>>, ioError |-> TRUE]}

SelFileLists ==
    {[i \in 1..Len(bs) |->
        [name |-> "bin.00" \o ToString(i), events |-> bs[i].events,
         ioError |-> bs[i].ioError]] :
        bs \in UNION {[1..n -> SelBodies] : n \in 0..MaxSelFiles}}

SelectorInit ==
    /\ config = NoFilter
    /\ files \in SelFileLists
    /\ file = [name |-> "", events |-> <<>>, ioError |-> FALSE]
    /\ TrackerIdle
    /\ mainPc = "idle"
    /\ launched = 0
    /\ taskPc = <<>>
    /\ semaphore = 0
    /\ wg = 0
    /\ cancelled = FALSE
    /\ resultChan = <<>>
    /\ resultRecv = 0
    /\ errorChan = <<>>
    /\ errorRecv = 0
    /\ closerPc = "idle"
    /\ bestResult = NoPosition
    /\ spRet = NoPosition
    /\ spErr = ""
    /\ firstRet = [returned |-> FALSE, pos |-> NoPosition]
    /\ HeaderIdle
    /\ searchI = 0
    /\ searchJ = 0
    /\ probes = <<>>
    /\ spc = "enter"
    /\ selRet = ""
    /\ selErr = ""
    /\ RemoteIdle
    /\ ExportIdle
    /\ CliIdle

\* if len(files) == 0 { return "", error }; sortSearch: i, j := 0, n
SelectEnter ==
    /\ spc = "enter"
    /\ IF Len(files) = 0
       THEN /\ selErr' = "no files to search"
            /\ spc' = "returned"
            /\ UNCHANGED <<searchI, searchJ>>
       ELSE /\ searchI' = 0
            /\ searchJ' = Len(files)
            /\ spc' = "search"
            /\ selErr' = selErr
    /\ UNCHANGED <<cliVars, exportVars, config, trackerVars, parallelVars, headerVars, remoteVars,
                   probes, selRet>>

\* Variant of Midpoint: the lowest index of the interval.
MidpointLowest(i, j) == i

\* h := int(uint(i+j) >> 1)
Midpoint(i, j) == (i + j) \div 2

\* One iteration of sortSearch: h := (i+j)/2, f(h) probes files[h].
Probe ==
    /\ spc = "search"
    /\ searchI < searchJ
    /\ LET h == Midpoint(searchI, searchJ)
           out == CheckPreviousGTIDs(files[h + 1])
       IN /\ probes' = Append(probes, [h |-> h, skipped |-> out.skipped,
                                       err |-> out.err])
          /\ IF ~ProbeSaysSkip(out)
             THEN searchI' = h + 1 /\ searchJ' = searchJ
             ELSE searchJ' = h /\ searchI' = searchI
    /\ UNCHANGED <<cliVars, exportVars, config, trackerVars, parallelVars, headerVars, remoteVars,
                   spc, selRet, selErr>>

\* Variant of StartFileOf: the file at the first index that says skip.
StartFileOfBoundary(fs, i) ==
    IF i = 0 THEN fs[1].name
    ELSE IF i = Len(fs) THEN fs[Len(fs)].name
    ELSE fs[i + 1].name

\* Variant of StartFileOf: the first file when no probe says skip.
StartFileOfFirstAtEnd(fs, i) ==
    IF i = 0 THEN fs[1].name
    ELSE IF i = Len(fs) THEN fs[1].name
    ELSE fs[i].name

\* The file chosen for idx, the first index whose probe says skip.
StartFileOf(fs, i) ==
    IF i = 0 THEN fs[1].name
    ELSE IF i = Len(fs) THEN fs[Len(fs)].name
    ELSE fs[i].name

\* sortSearch returns i; FindStartFileUsingHeaders returns the chosen file.
SelectReturn ==
    /\ spc = "search"
    /\ searchI >= searchJ
    /\ selRet' = StartFileOf(files, searchI)
    /\ selErr' = ""
    /\ spc' = "returned"
    /\ UNCHANGED <<cliVars, exportVars, config, trackerVars, parallelVars, headerVars, remoteVars,
                   searchI, searchJ, probes>>

SelectorNext == SelectEnter \/ Probe \/ SelectReturn

SelectorSpec == SelectorInit /\ [][SelectorNext]_vars

------------------------------------------------------------------------------
(* findGTIDPosition: the start file chosen from the headers of whole logs. *)

MaxLogFiles == 3   \* longest list of whole binlog files

\* The text of a previous-GTIDs event for the transactions S of uuid1.
GTIDSetText(S) ==
    CASE S = {} -> ""
      [] S = {1} -> "uuid1:1"
      [] S = {2} -> "uuid1:2"
      [] S = {3} -> "uuid1:3"
      [] S = {1, 2} -> "uuid1:1-2"
      [] S = {2, 3} -> "uuid1:2-3"
      [] S = {1, 3} -> "uuid1:1:3"
      [] S = {1, 2, 3} -> "uuid1:1-3"

\* An event of the head of a binlog file.
LogHeaderEv(type, gtidSets) ==
    [type |-> type, GTIDSets |-> gtidSets, SID |-> 0, GNO |-> 0, Schema |-> "",
     Query |-> "", LogPos |-> 0, EventSize |-> 0, Timestamp |-> 5]

\* The transaction g of uuid1 as the server logs it.
LoggedTransaction(g) == <<GTIDEv(1, g, 0, 0, 5), XIDEv(0, 0, 5)>>

\* File i of the logs in which transaction g was committed in file loc[g]
\* (0: not executed, -1: executed before the first retained file): a format
\* description, the previous-GTIDs event with everything executed before the
\* file, then the transactions of the file.
LogFile(loc, i) ==
    LET before == {g \in DOMAIN loc : loc[g] = -1 \/ (loc[g] >= 1 /\ loc[g] < i)}
        seg(g) == IF loc[g] = i THEN LoggedTransaction(g) ELSE <<>>
    IN [name |-> "bin.00" \o ToString(i),
        events |-> LaidOut(<<LogHeaderEv("FORMAT_DESCRIPTION", ""),
                             LogHeaderEv("PREVIOUS_GTIDS", GTIDSetText(before))>>
                           \o seg(1) \o seg(2) \o seg(3)),
        ioError |-> FALSE]

\* Contiguous logs with cumulative headers, for every placement of the
\* transactions 1..3 of uuid1.
LogLists ==
    UNION {{[i \in 1..n |-> LogFile(loc, i)] : loc \in [1..3 -> -1..n]} :
              n \in 1..MaxLogFiles}

\* FindStartFileUsingHeaders is entered on the logs.
StartFileInit ==
    /\ config = NoFilter
    /\ files \in LogLists
    /\ file = [name |-> "", events |-> <<>>, ioError |-> FALSE]
    /\ TrackerIdle
    /\ mainPc = "idle"
    /\ launched = 0
    /\ taskPc = <<>>
    /\ semaphore = 0
    /\ wg = 0
    /\ cancelled = FALSE
    /\ resultChan = <<>>
    /\ resultRecv = 0
    /\ errorChan = <<>>
    /\ errorRecv = 0
    /\ closerPc = "idle"
    /\ bestResult = NoPosition
    /\ spRet = NoPosition
    /\ spErr = ""
    /\ firstRet = [returned |-> FALSE, pos |-> NoPosition]
    /\ HeaderIdle
    /\ searchI = 0
    /\ searchJ = 0
    /\ probes = <<>>
    /\ spc = "enter"
    /\ selRet = ""
    /\ selErr = ""
    /\ RemoteIdle
    /\ ExportIdle
    /\ CliIdle

StartFileSpec == StartFileInit /\ [][SelectorNext]_vars

\* Filter binlog files if start-file is specified (or auto-detected): the files
\* from the first one named by cfg.StartFile on. The names of a list have one length,
\* so that strings.HasSuffix(file, cfg.StartFile) is equality.
FilteredFiles(fs, start) ==
    LET S == {i \in 1..Len(fs) : fs[i].name = start}
    IN IF S = {} THEN <<>>
       ELSE LET first == CHOOSE i \in S : \A j \in S : i <= j
            IN SubSeq(fs, first, Len(fs))

------------------------------------------------------------------------------
(* RemoteSearcher.Search: the tracker on a replication stream. *)

MaxRemoteLen == 4       \* longest unfiltered event stream
MaxRemoteFiltLen == 4   \* longest event stream read with time bounds

\* An event as the stream delivers it; NextLogName is the rotate payload.
Streamed(e, nextLogName) ==
    [type |-> e.type, SID |-> e.SID, GNO |-> e.GNO, Schema |-> e.Schema,
     Query |-> e.Query, LogPos |-> e.LogPos, EventSize |-> e.EventSize,
     Timestamp |-> e.Timestamp, NextLogName |-> nextLogName]

RotateEv(nextLogName, logPos, size, ts) ==
    Streamed(Ev("ROTATE", 0, 0, "", "", logPos, size, ts), nextLogName)

\* Variant of RemoteTimeFilter: an event after the end time is only skipped.
RemoteTimeFilterSkipsOnly(e) ==
    IF startTimestamp > 0 /\ e.Timestamp < startTimestamp THEN "continue"
    ELSE IF endTimestamp > 0 /\ e.Timestamp > endTimestamp THEN "continue"
    ELSE "pass"

\* Filter by time: continue before the start time, return after the end time.
RemoteTimeFilter(e) ==
    IF startTimestamp > 0 /\ e.Timestamp < startTimestamp THEN "continue"
    ELSE IF endTimestamp > 0 /\ e.Timestamp > endTimestamp THEN "ret-end-time"
    ELSE "pass"

\* The GTID event branch, on st = [result, currentTransaction, currentDatabase,
\* startFile]. out: continue, ret-next-gtid, or pass for falling through.
RemoteOnGTIDEvent(st, e) ==
    LET gtidStr == GTIDString(e.SID, e.GNO) IN
    IF Contain(gtidStr)
    THEN IF config.FilterDatabase # "" /\ st.currentDatabase # config.FilterDatabase
         THEN [st |-> [st EXCEPT !.currentTransaction = NoPosition],
               out |-> "continue"]
         ELSE [st |-> [st EXCEPT !.currentTransaction =
                                     OpenTransaction(st.startFile, e, st.currentDatabase)],
               out |-> "pass"]
    ELSE IF st.result.present /\ st.result.NextGTID = ""
         THEN [st |-> [st EXCEPT !.result = NextBoundary(@, e)],
               out |-> "ret-next-gtid"]
         ELSE [st |-> [st EXCEPT !.currentTransaction = NoPosition], out |-> "pass"]

\* Handle Rotation to update filename.
RemoteRotate(st, e) ==
    IF e.type = "ROTATE" THEN [st EXCEPT !.startFile = e.NextLogName] ELSE st

\* Variant of RemoteTransactionEnd: only XID_EVENT commits.
RemoteTransactionEndXidOnly(st, e) ==
    IF ~st.currentTransaction.present THEN st
    ELSE LET txn == [st.currentTransaction EXCEPT !.BinlogFile = st.startFile] IN
         IF e.type = "XID"
         THEN [st EXCEPT !.result = KeepHighest(@, Committed(txn, e)),
                         !.currentTransaction = NoPosition]
         ELSE [st EXCEPT !.currentTransaction = txn]

\* Transaction End: the transaction takes the current file name, and commits
\* on XID_EVENT or on a COMMIT query.
RemoteTransactionEnd(st, e) ==
    IF ~st.currentTransaction.present THEN st
    ELSE LET txn == [st.currentTransaction EXCEPT !.BinlogFile = st.startFile] IN
         IF e.type = "XID"
         THEN [st EXCEPT !.result = KeepHighest(@, Committed(txn, e)),
                         !.currentTransaction = NoPosition]
         ELSE IF e.type = "QUERY" /\ (e.Query = "COMMIT" \/ e.Query = "commit")
         THEN [st EXCEPT !.result = KeepHighest(@, Committed(txn, e)),
                         !.currentTransaction = NoPosition]
         ELSE [st EXCEPT !.currentTransaction = txn]

\* The body of the loop for one event.
RemoteOnEvent(st, e) ==
    IF RemoteTimeFilter(e) # "pass" THEN [st |-> st, out |-> RemoteTimeFilter(e)]
    ELSE LET s1 == [st EXCEPT !.currentDatabase = TrackDatabase(@, e)]
             g == IF e.type = "GTID" THEN RemoteOnGTIDEvent(s1, e)
                                     ELSE [st |-> s1, out |-> "pass"]
         IN IF g.out # "pass" THEN g
            ELSE [st |-> RemoteTransactionEnd(RemoteRotate(g.st, e), e),
                  out |-> "continue"]

\* Variant of OnGetEventError: an idle timeout is reported like any error.
OnGetEventErrorAlways(ending, res) ==
    [pc |-> "ret-error", pos |-> NoPosition, err |-> "get event error: " \o ending]

\* streamer.GetEvent returned an error: the idle timeout returns the result,
\* any other error is returned.
OnGetEventError(ending, res) ==
    IF ending = "timeout"
    THEN [pc |-> "ret-timeout", pos |-> res, err |-> ""]
    ELSE [pc |-> "ret-error", pos |-> NoPosition,
          err |-> "get event error: " \o ending]

\* Event kinds of a stream: in-range and out-of-range GTID events, commits,
\* rotations to two files.
RemoteKinds ==
    {Streamed(k, "") :
        k \in {GTIDEv(1, 1, 0, 0, 5), GTIDEv(1, 2, 0, 0, 5), GTIDEv(1, 3, 0, 0, 5),
               XIDEv(0, 0, 5), QueryEv("", "COMMIT", 0, 0, 5)}}
    \cup {RotateEv("mysql-bin.000002", 0, 0, 5), RotateEv("mysql-bin.000003", 0, 0, 5)}

RemoteConfig == [NoFilter EXCEPT !.StartFile = "mysql-bin.000001"]

\* Unfiltered streams that go idle or break after their last event.
RemotePlainInputs ==
    {[config |-> RemoteConfig,
      stream |-> [events |-> LaidOut(ks), ending |-> end, syncError |-> FALSE]] :
        ks \in SeqsUpTo(RemoteKinds, MaxRemoteLen), end \in {"timeout", "broken pipe"}}

\* Offsets as the server writes them: the events after a rotate event lie in
\* the file it opens, and their end offsets restart from its beginning.
LaidOutPerFile(kinds) ==
    [i \in 1..Len(kinds) |->
        LET before == {0} \cup {k \in 1..(i - 1) : kinds[k].type = "ROTATE"}
            r == CHOOSE k \in before : \A j \in before : j <= k
        IN [kinds[i] EXCEPT !.LogPos = 4 + 10 * (i - r), !.EventSize = 10]]

\* Unfiltered streams that cross files and then go idle.
RemoteRotatedInputs ==
    {[config |-> RemoteConfig,
      stream |-> [events |-> LaidOutPerFile(ks), ending |-> "timeout",
                  syncError |-> FALSE]] :
        ks \in SeqsUpTo(RemoteKinds, MaxRemoteLen)}

\* Streams read with time bounds: timestamps before, at and after the bounds.
RemoteTimeKinds ==
    {Streamed(GTIDEv(1, 1, 0, 0, ts), "") : ts \in {4, 5, 6}}
    \cup {Streamed(XIDEv(0, 0, ts), "") : ts \in {5, 6}}
    \cup {RotateEv("mysql-bin.000002", 0, 0, ts) : ts \in {4, 5}}
    \cup {Streamed(GTIDEv(1, 3, 0, 0, 5), "")}

RemoteTimeInputs ==
    {[config |-> c,
      stream |-> [events |-> LaidOut(ks), ending |-> "timeout", syncError |-> FALSE]] :
        c \in {[RemoteConfig EXCEPT !.StartTime = 5],
               [RemoteConfig EXCEPT !.EndTime = 5],
               [RemoteConfig EXCEPT !.StartTime = 5, !.EndTime = 5],
               [RemoteConfig EXCEPT !.StartTime = 6, !.EndTime = 4]},
        ks \in SeqsUpTo(RemoteTimeKinds, MaxRemoteFiltLen)}

\* Streams of whole transactions read with a database filter.
RemoteDbInputs ==
    {[config |-> [RemoteConfig EXCEPT !.FilterDatabase = "db1"],
      stream |-> [events |-> [i \in 1..Len(ks) |-> Streamed(LaidOut(ks)[i], "")],
                  ending |-> "timeout", syncError |-> FALSE]] :
        ks \in DbTxnSeqs(MaxDbTxns)}

\* No start file given; a connection that cannot start the sync.
RemoteBadStarts ==
    {[config |-> NoFilter,
      stream |-> [events |-> <<>>, ending |-> "timeout", syncError |-> FALSE]],
     [config |-> RemoteConfig,
      stream |-> [events |-> <<>>, ending |-> "timeout", syncError |-> TRUE]]}

\* RemoteSearcher.Search(target) is entered on the stream strm.
RemoteEntered(strm) ==
    /\ stream = strm
    /\ startFile = ""
    /\ rpc = "enter"
    /\ remoteIdx = 1
    /\ remoteResult = NoPosition
    /\ remoteDatabase = ""
    /\ remoteTransaction = NoPosition
    /\ remoteRetPos = NoPosition
    /\ remoteRetErr = ""

RemoteStart(inp) ==
    /\ config = inp.config
    /\ RemoteEntered(inp.stream)
    /\ file = [name |-> "", events |-> <<>>, ioError |-> FALSE]
    /\ TrackerIdle
    /\ ParallelIdle
    /\ HeaderIdle
    /\ SelectorIdle
    /\ ExportIdle
    /\ CliIdle

RemoteInit ==
    \/ \E inp \in RemotePlainInputs : RemoteStart(inp)
    \/ \E inp \in RemoteRotatedInputs : RemoteStart(inp)
    \/ \E inp \in RemoteTimeInputs : RemoteStart(inp)
    \/ \E inp \in RemoteDbInputs : RemoteStart(inp)
    \/ \E inp \in RemoteBadStarts : RemoteStart(inp)

\* startFile := s.config.StartFile; the start file is required; StartSync.
RemoteConnect ==
    /\ rpc = "enter"
    /\ startFile' = config.StartFile
    /\ IF config.StartFile = ""
       THEN /\ rpc' = "ret-start-file"
            /\ remoteRetErr' = "remote search currently requires -start-file to be specified"
       ELSE IF stream.syncError
       THEN /\ rpc' = "ret-sync"
            /\ remoteRetErr' = "failed to start sync"
       ELSE /\ rpc' = "streaming"
            /\ remoteRetErr' = remoteRetErr
    /\ UNCHANGED <<cliVars, exportVars, config, trackerVars, parallelVars, headerVars, selectorVars,
                   stream, remoteIdx, remoteResult, remoteDatabase,
                   remoteTransaction, remoteRetPos>>

\* streamer.GetEvent delivers the next event and the loop body runs on it.
RemoteEvent ==
    /\ rpc = "streaming"
    /\ remoteIdx <= Len(stream.events)
    /\ LET st == [result |-> remoteResult, currentTransaction |-> remoteTransaction,
                  currentDatabase |-> remoteDatabase, startFile |-> startFile]
           nx == RemoteOnEvent(st, stream.events[remoteIdx])
       IN /\ remoteResult' = nx.st.result
          /\ remoteTransaction' = nx.st.currentTransaction
          /\ remoteDatabase' = nx.st.currentDatabase
          /\ startFile' = nx.st.startFile
          /\ IF nx.out = "continue"
             THEN /\ rpc' = "streaming"
                  /\ UNCHANGED <<remoteRetPos, remoteRetErr>>
             ELSE /\ rpc' = nx.out
                  /\ remoteRetPos' = nx.st.result
                  /\ remoteRetErr' = ""
    /\ remoteIdx' = remoteIdx + 1
    /\ UNCHANGED <<cliVars, exportVars, config, trackerVars, parallelVars, headerVars, selectorVars,
                   stream>>

\* streamer.GetEvent returns an error: the idle timeout, or a failure.
RemoteGetEventError ==
    /\ rpc = "streaming"
    /\ remoteIdx > Len(stream.events)
    /\ LET out == OnGetEventError(stream.ending, remoteResult)
       IN /\ rpc' = out.pc
          /\ remoteRetPos' = out.pos
          /\ remoteRetErr' = out.err
    /\ UNCHANGED <<cliVars, exportVars, config, trackerVars, parallelVars, headerVars, selectorVars,
                   stream, startFile, remoteIdx, remoteResult, remoteDatabase,
                   remoteTransaction>>

RemoteNext == RemoteConnect \/ RemoteEvent \/ RemoteGetEventError

RemoteSpec == RemoteInit /\ [][RemoteNext]_vars

\* Event sequences whose provider ends normally or fails after the last event.
EndingInputs ==
    {[config |-> RemoteConfig, events |-> LaidOut(ks), ioError |-> io] :
        ks \in SeqsUpTo(Kinds, MaxOffLen), io \in BOOLEAN}

\* The same event sequence is given to searchBinlogFile as a file and to
\* RemoteSearcher.Search as a stream; a failing file is a breaking stream.
FailureInit ==
    \E inp \in EndingInputs :
        /\ config = inp.config
        /\ TrackerEntered(inp)
        /\ RemoteEntered([events |-> [i \in 1..Len(inp.events) |->
                                         Streamed(inp.events[i], "")],
                          ending |-> IF inp.ioError THEN "io error" ELSE "timeout",
                          syncError |-> FALSE])
        /\ ParallelIdle
        /\ HeaderIdle
        /\ SelectorIdle
        /\ ExportIdle
        /\ CliIdle

FailureNext == TrackerNext \/ RemoteNext

FailureSpec == FailureInit /\ [][FailureNext]_vars

\* Events of one file without rotate events: GTID events inside and outside
\* the target, both kinds of commit, and queries that switch the database.
MaxEquivLen == 3

EquivKinds ==
    {GTIDEv(1, 1, 0, 0, 5), GTIDEv(1, 2, 0, 0, 5), GTIDEv(1, 3, 0, 0, 5),
     XIDEv(0, 0, 5), QueryEv("", "COMMIT", 0, 0, 5), QueryEv("db1", "COMMIT", 0, 0, 5),
     QueryEv("db1", "BEGIN", 0, 0, 5), QueryEv("db2", "BEGIN", 0, 0, 5)}

EquivInputs ==
    {[config |-> [RemoteConfig EXCEPT !.FilterDatabase = db],
      events |-> LaidOut(ks), ioError |-> FALSE] :
        db \in {"", "db1"}, ks \in SeqsUpTo(EquivKinds, MaxEquivLen)}

\* The same event sequence, without time bounds, is read by searchBinlogFile
\* as a file and by RemoteSearcher.Search as a stream that then goes idle.
EquivInit ==
    \E inp \in EquivInputs :
        /\ config = inp.config
        /\ TrackerEntered(inp)
        /\ RemoteEntered([events |-> [i \in 1..Len(inp.events) |->
                                         Streamed(inp.events[i], "")],
                          ending |-> "timeout", syncError |-> FALSE])
        /\ ParallelIdle
        /\ HeaderIdle
        /\ SelectorIdle
        /\ ExportIdle
        /\ CliIdle

EquivSpec == EquivInit /\ [][FailureNext]_vars

\* Events on both sides of a start-time bound of 5: GTID events, commit
\* events, and a COMMIT query event that carries a schema.
StartTimeKinds ==
    {[k EXCEPT !.Timestamp = ts] :
        k \in {GTIDEv(1, 1, 0, 0, 5), XIDEv(0, 0, 5), QueryEv("db1", "COMMIT", 0, 0, 5)},
        ts \in {4, 5}}
    \cup {GTIDEv(1, 3, 0, 0, 5)}

StartTimeInputs ==
    {[config |-> [RemoteConfig EXCEPT !.StartTime = 5, !.FilterDatabase = db],
      events |-> LaidOut(ks), ioError |-> FALSE] :
        db \in {"", "db1"}, ks \in SeqsUpTo(StartTimeKinds, MaxFiltLen)}

\* The same event sequence is read with a start-time bound by searchBinlogFile
\* as a file and by RemoteSearcher.Search as a stream that then goes idle.
StartTimeInit ==
    \E inp \in StartTimeInputs :
        /\ config = inp.config
        /\ TrackerEntered(inp)
        /\ RemoteEntered([events |-> [i \in 1..Len(inp.events) |->
                                         Streamed(inp.events[i], "")],
                          ending |-> "timeout", syncError |-> FALSE])
        /\ ParallelIdle
        /\ HeaderIdle
        /\ SelectorIdle
        /\ ExportIdle
        /\ CliIdle

StartTimeSpec == StartTimeInit /\ [][FailureNext]_vars

------------------------------------------------------------------------------
(* CSVExporter.Export: the found positions written as CSV records. *)

MaxExport == 3   \* longest list of positions given to CSVExporter.Export

Digit(d) ==
    CASE d = 0 -> "0" [] d = 1 -> "1" [] d = 2 -> "2" [] d = 3 -> "3"
      [] d = 4 -> "4" [] d = 5 -> "5" [] d = 6 -> "6" [] d = 7 -> "7"
      [] d = 8 -> "8" [] d = 9 -> "9"

\* fmt.Sprintf("%d", n) of an unsigned value.
RECURSIVE Sprintf(_)
Sprintf(n) == IF n < 10 THEN Digit(n) ELSE Sprintf(n \div 10) \o Digit(n % 10)

\* time.Unix(int64(g.Timestamp), 0).Format(time.RFC3339), for the timestamps
\* of the explored inputs (the first minute of the epoch) in the zone UTC.
TimestampReadable(g) ==
    "1970-01-01T00:00:" \o (IF g.Timestamp < 10 THEN "0" ELSE "")
        \o Sprintf(g.Timestamp) \o "Z"

\* The header record Export writes.
CSVHeader == <<"binlog_file", "position", "gtid", "timestamp", "timestamp_readable">>

\* The record Export writes for one position.
CSVRow(pos) ==
    <<pos.BinlogFile, Sprintf(pos.Position), pos.GTID, Sprintf(pos.Timestamp),
      TimestampReadable(pos)>>

\* Positions as searchBinlogFile returns them: with and without a next GTID.
ExportPositions ==
    {p \in {searchBinlogFile([name |-> n, events |-> b.events,
                              ioError |-> b.ioError]).pos :
                n \in {"mysql-bin.000001", "mysql-bin.000002"}, b \in Bodies} :
        p.present}

\* Export(ps, output) is entered on an exporter with or without a header.
ExportInit ==
    /\ config = NoFilter
    /\ file = [name |-> "", events |-> <<>>, ioError |-> FALSE]
    /\ TrackerIdle
    /\ ParallelIdle
    /\ HeaderIdle
    /\ SelectorIdle
    /\ RemoteIdle
    /\ CliIdle
    /\ positions \in SeqsUpTo(ExportPositions, MaxExport)
    /\ IncludeHeader \in BOOLEAN
    /\ written = <<>>
    /\ exportIdx = 1
    /\ epc = "open"
    /\ exportErr = ""

\* The output is the standard output or a created file; os.Create may fail.
ExportOpen ==
    /\ epc = "open"
    /\ \E created \in BOOLEAN :
           IF created
           THEN epc' = "header" /\ exportErr' = exportErr
           ELSE epc' = "returned" /\ exportErr' = "failed to create CSV file"
    /\ UNCHANGED <<cliVars, config, trackerVars, parallelVars, headerVars, selectorVars,
                   remoteVars, positions, IncludeHeader, written, exportIdx>>

\* if e.IncludeHeader { writer.Write(header) }
ExportHeader ==
    /\ epc = "header"
    /\ written' = IF IncludeHeader THEN Append(written, CSVHeader) ELSE written
    /\ epc' = "rows"
    /\ UNCHANGED <<cliVars, config, trackerVars, parallelVars, headerVars, selectorVars,
                   remoteVars, positions, IncludeHeader, exportIdx, exportErr>>

\* for _, pos := range positions { writer.Write(row) }
ExportRow ==
    /\ epc = "rows"
    /\ exportIdx <= Len(positions)
    /\ written' = Append(written, CSVRow(positions[exportIdx]))
    /\ exportIdx' = exportIdx + 1
    /\ UNCHANGED <<cliVars, config, trackerVars, parallelVars, headerVars, selectorVars,
                   remoteVars, positions, IncludeHeader, epc, exportErr>>

\* return nil
ExportReturn ==
    /\ epc = "rows"
    /\ exportIdx > Len(positions)
    /\ epc' = "returned"
    /\ UNCHANGED <<cliVars, config, trackerVars, parallelVars, headerVars, selectorVars,
                   remoteVars, positions, IncludeHeader, written, exportIdx,
                   exportErr>>

ExportNext == ExportOpen \/ ExportHeader \/ ExportRow \/ ExportReturn

ExportSpec == ExportInit /\ [][ExportNext]_vars

-------------------------------------------------------------------------------
(* main: parseFlags, validateConfig, findGTIDPosition up to the search. *)

\* The flags of a command line; -parallel defaults to 4 and takes any integer.
FlagSets ==
    [BinlogDir : {"", "/var/lib/mysql", "/missing"}, Host : {"", "db.example"},
     User : {"", "repl"}, Password : {"", "secret"},
     TargetGTID : {"", "uuid1:1-2"}, GTIDFile : {"", "gtids.txt"},
     FindActiveMaster : BOOLEAN, StartFile : {"", "mysql-bin.000001"},
     OutputFormat : {"console", "csv", "xml"}, Parallel : {-1, 0, 1, 4}]

\* os.Stat(name) fails with an error that os.IsNotExist recognises: the one
\* directory of the machine exists, the empty path names no file.
StatIsNotExist(name) == name # "/var/lib/mysql"

\* ExportFormat.IsValid
IsValid(f) == f \in {"console", "csv", "json"}

\* validateConfig: the error it returns, "" for nil.
validateConfig(c) ==
    IF c.BinlogDir = "" /\ c.Host = ""
    THEN "either binlog directory (-dir) or mysql host (-host) is required"
    ELSE IF c.BinlogDir # "" /\ c.Host # ""
    THEN "cannot specify both -dir and -host"
    ELSE IF c.Host # "" /\ (c.User = "" \/ c.Password = "")
    THEN "user and password are required when using -host"
    ELSE IF c.TargetGTID = "" /\ c.GTIDFile = ""
    THEN "either -gtid or -gtid-file is required"
    ELSE IF c.TargetGTID # "" /\ c.GTIDFile # ""
    THEN "cannot specify both -gtid and -gtid-file"
    ELSE IF StatIsNotExist(c.BinlogDir)
    THEN "binlog directory does not exist: " \o c.BinlogDir
    ELSE IF c.Host # "" /\ c.FindActiveMaster
    THEN "-find-active-master is currently supported only for local binlog files (-dir)"
    ELSE IF c.Host # "" /\ c.StartFile = ""
    THEN "-start-file is required when using -host"
    ELSE IF ~IsValid(c.OutputFormat)
    THEN "invalid output format: " \o c.OutputFormat
    ELSE ""

\* NewSearcher(cfg), NewRemoteSearcher(cfg): the configuration the searcher reads.
SearcherConfig(c) ==
    [NoFilter EXCEPT !.Parallel = c.Parallel, !.StartFile = c.StartFile]

\* main is entered with the configuration parseFlags returns.
CliInit ==
    /\ config = NoFilter
    /\ file = [name |-> "", events |-> <<>>, ioError |-> FALSE]
    /\ TrackerIdle
    /\ ParallelIdle
    /\ HeaderIdle
    /\ SelectorIdle
    /\ RemoteIdle
    /\ ExportIdle
    /\ cfg \in FlagSets
    /\ cliPc = "main"
    /\ cliErr = ""

\* if err := validateConfig(cfg); err != nil { ...; os.Exit(1) }
ValidateConfig ==
    /\ cliPc = "main"
    /\ IF validateConfig(cfg) # ""
       THEN cliPc' = "exit" /\ cliErr' = validateConfig(cfg)
       ELSE cliPc' = "find" /\ cliErr' = cliErr
    /\ UNCHANGED <<cfg, exportVars, config, trackerVars, parallelVars, headerVars,
                   selectorVars, remoteVars>>

\* findGTIDPosition: ParseGTID, then the remote search when a host is given,
\* else a Searcher for the local files.
FindGTIDPosition ==
    /\ cliPc = "find"
    /\ IF cfg.TargetGTID = ""
       THEN /\ cliPc' = "exit"
            /\ cliErr' = "invalid GTID format: GTID string cannot be empty"
            /\ config' = config
       ELSE /\ cliPc' = IF cfg.Host # "" THEN "remote-search" ELSE "local"
            /\ cliErr' = cliErr
            /\ config' = SearcherConfig(cfg)
    /\ UNCHANGED <<cfg, exportVars, trackerVars, parallelVars, headerVars,
                   selectorVars, remoteVars>>

\* The local search: the files are listed and filtered from the start file,
\* each step may fail, and SearchParallel is called on what remains.
LocalSearch ==
    /\ cliPc = "local"
    /\ \E out \in {"listing failed", "no binlog files found", "start file not found",
                    "failed to find active master", ""} :
           /\ out = "start file not found" => cfg.StartFile # ""
           /\ out = "failed to find active master" => cfg.FindActiveMaster
           /\ IF out # ""
              THEN cliPc' = "exit" /\ cliErr' = out
              ELSE cliPc' = "search-parallel" /\ cliErr' = cliErr
    /\ UNCHANGED <<cfg, exportVars, config, trackerVars, parallelVars, headerVars,
                   selectorVars, remoteVars>>

CliNext == ValidateConfig \/ FindGTIDPosition \/ LocalSearch

CliSpec == CliInit /\ [][CliNext]_vars


------------------------------------------------------------------------------
(* Reading an event sequence as transactions, independently of the tracker. *)

IsGTID(e) == e.type = "GTID"
InTarget(e) == IsGTID(e) /\ GTIDString(e.SID, e.GNO) \in TargetGTID
IsCommit(e) == e.type = "XID" \/ (e.type = "QUERY" /\ e.Query \in {"COMMIT", "commit"})

\* The GTID event at g opens a transaction of the target set that commits at c.
CommitsAt(evs, g, c) ==
    /\ g < c
    /\ InTarget(evs[g])
    /\ IsCommit(evs[c])
    /\ \A k \in (g + 1)..(c - 1) : ~IsGTID(evs[k]) /\ ~IsCommit(evs[k])

\* The in-range transactions that commit anywhere in the sequence.
InRangeCommits(evs) ==
    {t \in (1..Len(evs)) \X (1..Len(evs)) : CommitsAt(evs, t[1], t[2])}

\* Position p describes the transaction opened at g and committed at c.
IsTxn(p, evs, g, c) ==
    /\ p.present
    /\ p.GTID = GTIDString(evs[g].SID, evs[g].GNO)
    /\ p.GNO = evs[g].GNO
    /\ p.Position = Uint32(evs[g].LogPos - evs[g].EventSize)
    /\ p.CommitPosition = evs[c].LogPos

SetMin(S) == CHOOSE m \in S : \A n \in S : m <= n

Unfiltered == config.FilterDatabase = "" /\ config.StartTime = 0 /\ config.EndTime = 0

\* No two events of the sequence start at the same offset.
StartsDistinct(evs) ==
    \A i, j \in 1..Len(evs) :
        Uint32(evs[i].LogPos - evs[i].EventSize) = Uint32(evs[j].LogPos - evs[j].EventSize)
            => i = j

\* searchBinlogFile has returned from a stream that ended normally.
Scanned == tpc = "returned" /\ ~file.ioError

\* GTID events after index c; the ones outside the target set.
GTIDsAfter(evs, c) == {k \in (c + 1)..Len(evs) : IsGTID(evs[k])}
OutsideAfter(evs, c) == {k \in GTIDsAfter(evs, c) : ~InTarget(evs[k])}

------------------------------------------------------------------------------
(* Claims about searchBinlogFile. *)

\* C1: without time or database filter, the returned position is the committed
\* in-range transaction with the highest gno among all in-range transactions
\* that commit anywhere in the event sequence.
C1_HighestOfSequence ==
    (Scanned /\ Unfiltered) =>
        LET evs == file.events
            T == InRangeCommits(evs)
        IN IF T = {} THEN ~retPos.present
           ELSE \E t \in T :
                    /\ IsTxn(retPos, evs, t[1], t[2])
                    /\ \A u \in T : evs[u[1]].GNO <= evs[t[1]].GNO

C3_SingleCommitResumeEqualsCommit ==
    (Scanned /\ Unfiltered) =>
        LET evs == file.events IN
        \A t \in InRangeCommits(evs) :
            (InRangeCommits(evs) = {t} /\ GTIDsAfter(evs, t[2]) = {}) =>
                /\ IsTxn(retPos, evs, t[1], t[2])
                /\ retPos.CommitPosition = evs[t[2]].LogPos
                /\ retPos.ResumePosition = retPos.CommitPosition
                /\ retPos.NextGTID = ""

\* A returned single transaction committed by a COMMIT query, with events on
\* both sides of it.
C3_Witness ==
    /\ Scanned /\ Unfiltered /\ retPos.present
    /\ \E t \in InRangeCommits(file.events) :
           /\ InRangeCommits(file.events) = {t}
           /\ GTIDsAfter(file.events, t[2]) = {}
           /\ file.events[t[2]].type = "QUERY"
           /\ t[1] > 1 /\ t[2] < Len(file.events)
           /\ retPos.ResumePosition = file.events[t[2]].LogPos

\* C4: when no GTID event of the sequence is in the target set, the tracker
\* returns no position, and no error unless the stream itself failed.
C4_NoMatchNoPosition ==
    (tpc = "returned" /\ \A k \in 1..Len(file.events) : ~InTarget(file.events[k])) =>
        /\ ~retPos.present
        /\ ~file.ioError => retErr = ""

\* A returned scan of a file with an out-of-range GTID event followed by a
\* commit event, and nothing of the target set.
C4_Witness ==
    /\ tpc = "returned" /\ ~file.ioError
    /\ \A k \in 1..Len(file.events) : ~InTarget(file.events[k])
    /\ \E g, c \in 1..Len(file.events) :
           g < c /\ IsGTID(file.events[g]) /\ IsCommit(file.events[c])
    /\ ~retPos.present /\ retErr = ""

\* End offsets never decrease along the sequence; every size fits its offset.
OffsetsOrdered(evs) ==
    /\ \A i, j \in 1..Len(evs) : i < j => evs[i].LogPos <= evs[j].LogPos
    /\ \A i \in 1..Len(evs) : evs[i].EventSize <= evs[i].LogPos

\* C5: for sequences with non-decreasing end offsets and sizes that fit,
\* every returned position has position <= commit_position <= resume_position.
C5_PositionsOrdered ==
    (tpc = "returned" /\ retPos.present /\ OffsetsOrdered(file.events)) =>
        /\ retPos.Position <= retPos.CommitPosition
        /\ retPos.CommitPosition <= retPos.ResumePosition

\* A returned position with three different, ordered offsets.
C5_Witness ==
    /\ tpc = "returned" /\ retPos.present /\ OffsetsOrdered(file.events)
    /\ retPos.Position < retPos.CommitPosition
    /\ retPos.CommitPosition < retPos.ResumePosition

------------------------------------------------------------------------------
(* Claims about SearchParallel. *)

\* Scanned on its own, file i yields a match; it yields an error.
Matches(i) == searchBinlogFile(files[i]).err = "" /\ searchBinlogFile(files[i]).pos.present
Fails(i) == searchBinlogFile(files[i]).err # ""

SetMax(S) == CHOOSE m \in S : \A n \in S : n <= m

\* C6: when SearchParallel returns, the returned gno is the maximum gno over
\* all matches published on resultChan, whatever the order of publication.
C6_HighestPublished ==
    mainPc = "returned" =>
        IF resultChan = <<>> THEN ~spRet.present
        ELSE /\ \E k \in 1..Len(resultChan) : spRet = resultChan[k]
             /\ spRet.GNO = SetMax({resultChan[k].GNO : k \in 1..Len(resultChan)})

\* A return where the first published match is not the one returned.
C6_Witness ==
    /\ mainPc = "returned"
    /\ Len(resultChan) >= 2
    /\ resultChan[1].GNO < spRet.GNO

\* C7: a second call of SearchParallel over the same files and target, with
\* any concurrency limit and under any scheduling, selects the transaction the
\* first call selected (the same gtid and gno), hence the same position.
C7_SameResultEveryRun ==
    (firstRet.returned /\ mainPc = "returned") =>
        /\ spRet.present = firstRet.pos.present
        /\ spRet.GTID = firstRet.pos.GTID
        /\ spRet.GNO = firstRet.pos.GNO

\* C8: when exactly one file yields a match, SearchParallel returns that
\* file's match, with binlog_file naming that file.
C8_OnlyMatchReturned ==
    mainPc = "returned" =>
        \A i \in Tasks :
            (Matches(i) /\ \A j \in Tasks \ {i} : ~Matches(j)) =>
                /\ spRet = searchBinlogFile(files[i]).pos
                /\ spRet.BinlogFile = files[i].name

\* Three files, the second the only one with a match, one failing, one without
\* a match: the second file's match is returned.
C8_Witness ==
    /\ mainPc = "returned"
    /\ Len(files) = 3
    /\ Matches(2) /\ ~Matches(1) /\ ~Matches(3)
    /\ \E j \in {1, 3} : Fails(j)
    /\ spRet.present /\ spRet.BinlogFile = files[2].name

\* The goroutines that hold an admission slot.
Holding == {i \in Tasks : taskPc[i] \in {"check", "scan", "cancel", "release"}}

\* C9: at most config.Parallel goroutines hold an admission slot, so at most
\* that many scans run at once.
C9_AtMostNSlots ==
    mainPc # "idle" =>
        /\ Cardinality(Holding) <= config.Parallel
        /\ semaphore = Cardinality(Holding)
        /\ Cardinality({i \in Tasks : taskPc[i] = "scan"}) <= config.Parallel

\* Every slot is taken by a running scan while another goroutine waits.
C9_Witness ==
    /\ config.Parallel = 2
    /\ Cardinality({i \in Tasks : taskPc[i] = "scan"}) = 2
    /\ \E i \in Tasks : taskPc[i] = "acquire"

\* C10: a scan error does not signal cancellation (the context is cancelled
\* only once a match is published, or on return) and does not keep another
\* file's match from being returned; the returned error is always nil; when
\* every file fails, nothing is returned.
C10_ErrorsIsolated ==
    /\ (cancelled /\ mainPc # "returned") => resultChan # <<>>
    /\ mainPc = "returned" =>
           /\ spErr = ""
           /\ (\A i \in Tasks : Fails(i)) => ~spRet.present
           /\ ((\E i \in Tasks : Fails(i)) /\ (\E i \in Tasks : Matches(i))) =>
                  spRet.present

\* A return with the last file's match although the scan of an earlier file
\* failed and its error was collected.
C10_Witness ==
    /\ mainPc = "returned"
    /\ spRet.present /\ spErr = ""
    /\ errorChan # <<>>
    /\ \E i \in Tasks : Fails(i) /\ i < Len(files) /\ Matches(Len(files))

------------------------------------------------------------------------------
(* Claims about CheckPreviousGTIDs and FindStartFileUsingHeaders. *)

\* The index of the first previous-GTIDs event of a stream, 0 when it has none.
FirstPrevious(evs) ==
    LET S == {k \in 1..Len(evs) : evs[k].type = "PREVIOUS_GTIDS"}
    IN IF S = {} THEN 0 ELSE SetMin(S)

\* The first previous-GTIDs event of the stream carries a set that contains
\* every GTID of the target.
HeaderContainsTarget(evs) ==
    /\ FirstPrevious(evs) > 0
    /\ ~ParseMysqlGTIDSet(evs[FirstPrevious(evs)].GTIDSets).err
    /\ \A g \in TargetGTID :
           g \in ParseMysqlGTIDSet(evs[FirstPrevious(evs)].GTIDSets).set

\* The probe of the stream is unknown: it ends, or fails, without a
\* previous-GTIDs event.
HeaderUnknown(evs) == FirstPrevious(evs) = 0

\* P(i) of the selector, for the 1-based index i.
P(i) == HeaderContainsTarget(files[i].events)

Monotone == \A i, j \in 1..Len(files) : (i < j /\ P(i)) => P(j)

\* The 1-based index of the returned file.
ReturnedIndex == CHOOSE i \in 1..Len(files) : files[i].name = selRet

\* C11: on a non-empty file list whose predicate P is monotone,
\* FindStartFileUsingHeaders returns the first file when P holds of it, the
\* last file when P holds of no file, and otherwise the file i with P(i)
\* false and P(i+1) true.
C11_BoundaryFile ==
    (spc = "returned" /\ Len(files) > 0 /\ Monotone) =>
        /\ selErr = ""
        /\ IF P(1) THEN selRet = files[1].name
           ELSE IF \A i \in 1..Len(files) : ~P(i)
                THEN selRet = files[Len(files)].name
           ELSE \E i \in 1..(Len(files) - 1) :
                    ~P(i) /\ P(i + 1) /\ selRet = files[i].name

\* A return from a monotone list with the boundary strictly inside it, after a
\* probe of a file whose header is unknown.
C11_Witness ==
    /\ spc = "returned" /\ Monotone
    /\ Len(files) >= 4
    /\ \E i \in 2..(Len(files) - 2) :
           ~P(i) /\ P(i + 1) /\ selRet = files[i].name
    /\ \E k \in 1..Len(probes) : HeaderUnknown(files[probes[k].h + 1].events)

\* C12: the file FindStartFileUsingHeaders returns is never later in the list
\* than a file whose header was probed as unknown.
C12_NeverLaterThanUnknown ==
    (spc = "returned" /\ Len(files) > 0) =>
        \A k \in 1..Len(probes) :
            HeaderUnknown(files[probes[k].h + 1].events) =>
                ReturnedIndex <= probes[k].h + 1

\* C17: CheckPreviousGTIDs returns true without error exactly when the first
\* previous-GTIDs event of the stream carries a set containing the target; it
\* reads no event after that first previous-GTIDs event; it returns false
\* without error when the stream ends without such an event, and false with
\* the stream's error when the stream fails first.
C17_FirstHeaderDecides ==
    hpc = "returned" =>
        LET evs == file.events
            p == FirstPrevious(evs)
        IN /\ (skipped /\ retErr = "") <=> HeaderContainsTarget(evs)
           /\ skipped => retErr = ""
           /\ p > 0 => idx = p + 1
           /\ (p = 0 /\ ~file.ioError) => (~skipped /\ retErr = "")
           /\ (p = 0 /\ file.ioError) => (~skipped /\ retErr = "io error")

\* A probe that returned true at a previous-GTIDs event in second place and
\* left a later previous-GTIDs event, one that does not contain the target,
\* unread.
C17_Witness ==
    /\ hpc = "returned" /\ skipped /\ retErr = ""
    /\ FirstPrevious(file.events) = 2
    /\ Len(file.events) = 3
    /\ file.events[3].type = "PREVIOUS_GTIDS"
    /\ file.events[3].GTIDSets = "uuid1:1"
    /\ idx = 3

------------------------------------------------------------------------------
(* Further claims about searchBinlogFile. *)

\* current_database when the event at g arrives: the last non-empty schema of
\* an earlier query event, empty when there was none.
DatabaseAt(evs, g) ==
    LET S == {k \in 1..(g - 1) : evs[k].type = "QUERY" /\ evs[k].Schema # ""}
    IN IF S = {} THEN "" ELSE evs[SetMax(S)].Schema

\* The in-range transactions whose commit the scan has consumed.
ConsumedCommits == {t \in InRangeCommits(file.events) : t[2] < idx}

\* C13: with a database filter (and no time bound), an in-range transaction
\* that commits is left out of consideration exactly when current_database at
\* its GTID event differs from the filter: the best match is never such a
\* transaction, it is always a consumed transaction of the filtered schema,
\* and it is at least as high as every consumed transaction of that schema.
C13_ExcludedIffOtherDatabase ==
    (tpc # "idle" /\ config.FilterDatabase # ""
        /\ config.StartTime = 0 /\ config.EndTime = 0) =>
        LET evs == file.events IN
        /\ \A t \in ConsumedCommits :
               IF DatabaseAt(evs, t[1]) # config.FilterDatabase
               THEN ~IsTxn(result, evs, t[1], t[2])
               ELSE result.present /\ result.GNO >= evs[t[1]].GNO
        /\ result.present =>
               \E t \in ConsumedCommits :
                   /\ IsTxn(result, evs, t[1], t[2])
                   /\ DatabaseAt(evs, t[1]) = config.FilterDatabase
                   /\ result.Database = config.FilterDatabase

\* A returned scan of two in-range transactions: the higher one under another
\* schema, the lower one, later in the file, under the filtered schema.
C13_Witness ==
    /\ tpc = "returned" /\ config.FilterDatabase = "db1"
    /\ retPos.present /\ retPos.GNO = 1
    /\ \E t, u \in ConsumedCommits :
           /\ t[2] < u[1]
           /\ file.events[t[1]].GNO = 2
           /\ DatabaseAt(file.events, t[1]) = "db2"
           /\ DatabaseAt(file.events, u[1]) = "db1"
           /\ IsTxn(retPos, file.events, u[1], u[2])

\* The tracker is about to see a GTID event outside the target set while the
\* best match is present with no next_gtid recorded.
AtNextBoundary ==
    /\ tpc = "parsing"
    /\ idx <= Len(file.events)
    /\ result.present /\ result.NextGTID = ""
    /\ IsGTID(file.events[idx]) /\ ~InTarget(file.events[idx])
    /\ ~TimeFiltered(file.events[idx])

\* The scan stopped at the next GTID: the event before idx is the boundary.
StoppedAtBoundary ==
    /\ tpc \in {"parsed", "returned"}
    /\ idx > 1
    /\ IsGTID(file.events[idx - 1]) /\ ~InTarget(file.events[idx - 1])
    /\ result.present
    /\ result.NextGTID = GTIDString(file.events[idx - 1].SID, file.events[idx - 1].GNO)
    /\ result.ResumePosition = file.events[idx - 1].LogPos
    /\ tpc = "returned" => (retErr = "" /\ retPos = result)

\* C15: a GTID event outside the target set seen while the best match is
\* present with no next_gtid recorded makes the tracker record next_gtid and
\* resume_position and stop at once; no later event is processed or changes
\* the result, and the best match is returned with a nil error.
C15_StopsAtNextGTID ==
    /\ [][AtNextBoundary =>
              /\ tpc' = "parsed"
              /\ parseErr' = "found_next_gtid"
              /\ idx' = idx + 1
              /\ result' = [result EXCEPT
                     !.NextGTID = GTIDString(file.events[idx].SID, file.events[idx].GNO),
                     !.ResumePosition = file.events[idx].LogPos]]_vars
    /\ [](parseErr = "found_next_gtid" => StoppedAtBoundary)
    /\ [][parseErr = "found_next_gtid" => (result' = result /\ idx' = idx)]_vars

\* A scan that returned at the next GTID with in-range events left unread.
C15_Witness ==
    /\ tpc = "returned" /\ parseErr = "found_next_gtid"
    /\ retErr = "" /\ retPos.present /\ retPos.NextGTID # ""
    /\ idx <= Len(file.events)
    /\ \E k \in idx..Len(file.events) : InTarget(file.events[k])

\* The events at g and c are the GTID event and the commit of one transaction
\* as the tracker reads them: both are processed, and no GTID or commit event
\* is processed between them.
OneTransaction(evs, g, c) ==
    /\ g < c
    /\ InTarget(evs[g]) /\ ~TimeFiltered(evs[g])
    /\ IsCommit(evs[c]) /\ ~TimeFiltered(evs[c])
    /\ \A k \in (g + 1)..(c - 1) :
           TimeFiltered(evs[k]) \/ (~IsGTID(evs[k]) /\ ~IsCommit(evs[k]))

\* C16: the returned position describes one transaction: gtid and gno are
\* those of a GTID event E, position is E.log_position - E.event_size, and
\* commit_position, like the timestamp, is that of the XID or COMMIT event
\* that ended the transaction E opened.
C16_OneTransaction ==
    (tpc = "returned" /\ retPos.present) =>
        \E g, c \in 1..Len(file.events) :
            /\ OneTransaction(file.events, g, c)
            /\ IsTxn(retPos, file.events, g, c)
            /\ retPos.ServerUUID = UUIDString(file.events[g].SID)
            /\ retPos.Timestamp = file.events[c].Timestamp

\* A returned position of the second of two in-range transactions that both
\* committed, the second one by a COMMIT query.
C16_Witness ==
    /\ tpc = "returned" /\ retPos.present
    /\ \E t, u \in InRangeCommits(file.events) :
           /\ t[2] < u[1]
           /\ file.events[u[2]].type = "QUERY"
           /\ IsTxn(retPos, file.events, u[1], u[2])
           /\ ~IsTxn(retPos, file.events, t[1], u[2])
           /\ ~IsTxn(retPos, file.events, u[1], t[2])

------------------------------------------------------------------------------
(* Claims about RemoteSearcher.Search. *)

\* C14: when the event provider fails, searchBinlogFile returns that error
\* unchanged and no position, and RemoteSearcher.Search returns an error and
\* no position, also when a committed match had been found before the failure.
C14_FailureReturnsNoPosition ==
    /\ (tpc = "returned" /\ parseErr = "io error") =>
           (retErr = parseErr /\ ~retPos.present)
    /\ rpc \in {"ret-error", "ret-sync"} =>
           (remoteRetErr # "" /\ ~remoteRetPos.present)

\* Both searches returned the failure after each had found a committed match.
C14_Witness ==
    /\ tpc = "returned" /\ file.ioError /\ parseErr = "io error"
    /\ result.present /\ retErr = "io error" /\ ~retPos.present
    /\ rpc = "ret-error"
    /\ remoteResult.present /\ remoteRetErr # "" /\ ~remoteRetPos.present

\* The in-range transactions of the stream whose commit has been consumed.
RemoteConsumed ==
    {t \in InRangeCommits(stream.events) : t[2] < remoteIdx}

\* C18: when a read reaches the idle timeout, the search ends and returns the
\* current best, possibly none, with a nil error; the best is a transaction
\* that committed, never the one still in flight.
C18_TimeoutReturnsBest ==
    (rpc \in {"ret-timeout", "ret-error"} /\ stream.ending = "timeout") =>
        /\ remoteRetErr = ""
        /\ remoteRetPos = remoteResult
        /\ remoteIdx = Len(stream.events) + 1
        /\ remoteRetPos.present =>
               \E g, c \in 1..Len(stream.events) :
                   /\ OneTransaction(stream.events, g, c)
                   /\ IsTxn(remoteRetPos, stream.events, g, c)
        /\ (remoteTransaction.present /\ remoteRetPos.present
                /\ StartsDistinct(stream.events)) =>
               remoteRetPos.Position # remoteTransaction.Position

\* A timeout with a committed match and a higher in-range transaction in
\* flight: the committed one is returned.
C18_Witness ==
    /\ rpc = "ret-timeout"
    /\ remoteTransaction.present /\ remoteRetPos.present
    /\ remoteTransaction.GNO > remoteRetPos.GNO
    /\ remoteRetErr = ""

\* The timestamp of the event exceeds the configured end-time bound.
ExceedsEndTime(e) == endTimestamp > 0 /\ e.Timestamp > endTimestamp

\* The timestamp of the event is before the configured start-time bound.
BeforeStartTime(e) == startTimestamp > 0 /\ e.Timestamp < startTimestamp

\* The search is about to read the event at the head of the stream.
AtEvent == rpc = "streaming" /\ remoteIdx <= Len(stream.events)

\* C19 as stated: with an end-time bound, the first event whose timestamp
\* exceeds the bound ends the search: the current best is returned with a nil
\* error and no later event is processed.
C19_EndTimeStops ==
    /\ [][(AtEvent /\ ExceedsEndTime(stream.events[remoteIdx])) =>
              /\ rpc' = "ret-end-time"
              /\ remoteRetPos' = remoteResult
              /\ remoteRetErr' = ""]_vars
    /\ [](\A k \in 1..(remoteIdx - 1) :
              ExceedsEndTime(stream.events[k]) =>
                  (k = remoteIdx - 1 /\ rpc = "ret-end-time"))

\* C19 amended: with an end-time bound, the first event whose timestamp
\* exceeds the bound and is not before a configured start-time bound ends the
\* search: the current best is returned with a nil error and no later event
\* is processed.
C19_EndTimeStopsUnlessBeforeStart ==
    /\ [][(AtEvent /\ ExceedsEndTime(stream.events[remoteIdx])
                   /\ ~BeforeStartTime(stream.events[remoteIdx])) =>
              /\ rpc' = "ret-end-time"
              /\ remoteRetPos' = remoteResult
              /\ remoteRetErr' = ""]_vars
    /\ [](\A k \in 1..(remoteIdx - 1) :
              (ExceedsEndTime(stream.events[k])
                   /\ ~BeforeStartTime(stream.events[k])) =>
                  (k = remoteIdx - 1 /\ rpc = "ret-end-time"))

\* A search ended by the end-time bound that returns a committed match and
\* leaves an in-range GTID event unread.
C19_Witness ==
    /\ rpc = "ret-end-time"
    /\ remoteRetPos.present /\ remoteRetErr = ""
    /\ ExceedsEndTime(stream.events[remoteIdx - 1])
    /\ \E k \in remoteIdx..Len(stream.events) : InTarget(stream.events[k])

\* The file the stream is in when the event at g arrives: the one named by
\* the last rotate event before g, the configured start file when none.
FileAt(evs, g) ==
    LET S == {k \in 1..(g - 1) : evs[k].type = "ROTATE"}
    IN IF S = {} THEN config.StartFile ELSE evs[SetMax(S)].NextLogName

\* C20: a transaction whose GTID event and commit arrive after a rotate event
\* naming F and before the next rotate event is reported with binlog_file F;
\* before any rotate event the configured start file is reported.
C20_FileOfLastRotate ==
    (rpc \notin {"idle", "enter"} /\ remoteResult.present
        /\ StartsDistinct(stream.events)) =>
        \A t \in RemoteConsumed :
            (/\ IsTxn(remoteResult, stream.events, t[1], t[2])
             /\ \A k \in t[1]..t[2] : stream.events[k].type # "ROTATE") =>
                remoteResult.BinlogFile = FileAt(stream.events, t[1])

\* C21: every position Remote Search returns has position <= commit_position
\* <= resume_position, also on streams with rotate events after which the end
\* offsets restart from the beginning of the new file.
C21_RemotePositionsOrdered ==
    remoteRetPos.present =>
        /\ remoteRetPos.Position <= remoteRetPos.CommitPosition
        /\ remoteRetPos.CommitPosition <= remoteRetPos.ResumePosition

\* The least k with 2^k >= m.
RECURSIVE CeilLog2(_)
CeilLog2(m) == IF m <= 1 THEN 0 ELSE 1 + CeilLog2((m + 1) \div 2)

\* C22: on n files FindStartFileUsingHeaders reads at most ceil(log2(n+1))
\* file headers, never the header of one file twice, and only headers of
\* indices in [0, n).
C22_LogarithmicProbes ==
    /\ Len(probes) <= CeilLog2(Len(files) + 1)
    /\ \A k \in 1..Len(probes) :
           /\ probes[k].h \in 0..(Len(files) - 1)
           /\ \A l \in 1..Len(probes) : probes[l].h = probes[k].h => l = k

\* A return from the longest file list after as many probes as the bound allows.
C22_Witness ==
    /\ spc = "returned"
    /\ Len(files) = MaxSelFiles
    /\ Len(probes) = CeilLog2(Len(files) + 1)

\* C23: the CSV export writes, for each position, the columns binlog_file,
\* start_position, commit_position, resume_position, gtid, next_gtid,
\* timestamp and database, so that the resume position and the next GTID the
\* search computed appear in the row.
C23_CSVColumns ==
    (epc = "returned" /\ exportErr = "") =>
        LET first == IF IncludeHeader THEN 1 ELSE 0
        IN /\ Len(written) = first + Len(positions)
           /\ IncludeHeader =>
                  written[1] = <<"binlog_file", "start_position", "commit_position",
                                 "resume_position", "gtid", "next_gtid",
                                 "timestamp", "database">>
           /\ \A i \in 1..Len(positions) :
                  written[first + i] =
                      <<positions[i].BinlogFile, Sprintf(positions[i].Position),
                        Sprintf(positions[i].CommitPosition),
                        Sprintf(positions[i].ResumePosition), positions[i].GTID,
                        positions[i].NextGTID, Sprintf(positions[i].Timestamp),
                        positions[i].Database>>

\* ParseFile is about to invoke the callback on the event at idx.
AtFileEvent == tpc = "parsing" /\ idx <= Len(file.events)

\* C24 as stated: in the file tracker with an end-time bound, the first event
\* whose timestamp exceeds the bound ends the scan: no later event is
\* processed, and the scan returns the current best with no error.
C24_EndTimeTerminates ==
    /\ [][(AtFileEvent /\ ExceedsEndTime(file.events[idx])) =>
              /\ tpc' # "parsing"
              /\ result' = result]_vars
    /\ [](\A k \in 1..(idx - 1) :
              ExceedsEndTime(file.events[k]) => (k = idx - 1 /\ tpc # "parsing"))
    /\ []((Scanned /\ \E k \in 1..Len(file.events) : ExceedsEndTime(file.events[k]))
              => retErr = "")

\* C24 amended: in the file tracker with an end-time bound, an event whose
\* timestamp exceeds the bound is only skipped: it leaves the current
\* database, the transaction in flight and the best match unchanged and the
\* scan goes on with the next event; the scan of a readable file that meets
\* such events still returns with no error.
C24_EndTimeSkips ==
    /\ [][(AtFileEvent /\ ExceedsEndTime(file.events[idx])) =>
              /\ tpc' = "parsing" /\ idx' = idx + 1
              /\ UNCHANGED <<result, currentTransaction, currentDatabase>>]_vars
    /\ []((Scanned /\ \E k \in 1..Len(file.events) : ExceedsEndTime(file.events[k]))
              => retErr = "")

\* A scan that returns a transaction read after an event past the end time.
C24_Witness ==
    /\ Scanned /\ retPos.present
    /\ \E g, c \in 1..Len(file.events) :
           /\ OneTransaction(file.events, g, c)
           /\ IsTxn(retPos, file.events, g, c)
           /\ \E k \in 1..(g - 1) : ExceedsEndTime(file.events[k])

\* What the scan of goroutine i sends on the two channels.
Published(i) == searchBinlogFile(files[i])

\* C25: a scan task that acquires its slot after the cancellation flag is
\* signalled exits without scanning its file and publishes neither a match
\* nor an error; cancellation is checked only at this task-start boundary, so
\* a task past it scans and publishes although the flag is signalled.
C25_CancelledTaskSkipsScan ==
    [][\A i \in Tasks :
          /\ (taskPc[i] = "check" /\ cancelled /\ taskPc'[i] # "check") =>
                 /\ taskPc'[i] = "release"
                 /\ resultChan' = resultChan /\ errorChan' = errorChan
          /\ (taskPc[i] = "release" /\ taskPc'[i] # "release") =>
                 /\ taskPc'[i] = "finished"
                 /\ resultChan' = resultChan /\ errorChan' = errorChan
          /\ (taskPc[i] = "scan" /\ cancelled /\ taskPc'[i] # "scan") =>
                 /\ Published(i).err # "" => Len(errorChan') = Len(errorChan) + 1
                 /\ Published(i).pos.present =>
                        resultChan' = Append(resultChan, Published(i).pos)]_vars

\* SearchParallel has returned and the match of some file was never
\* published: its task met the cancellation and left without scanning.
C25_Witness ==
    /\ mainPc = "returned"
    /\ \E i \in Tasks :
           /\ Published(i).pos.present
           /\ \A k \in 1..Len(resultChan) : resultChan[k].BinlogFile # files[i].name

\* C26: a file scan that has started is never interrupted by cancellation: it
\* runs to completion and its match, if any, is published; SearchParallel
\* returns only after every launched task has finished, and every published
\* match is among the results the final selection compared.
C26_StartedScanCompletes ==
    /\ [][\A i \in Tasks :
              (taskPc[i] = "scan" /\ taskPc'[i] # "scan") =>
                  /\ taskPc'[i] \in {"cancel", "release"}
                  /\ (Published(i).err = "" /\ Published(i).pos.present) =>
                         /\ resultChan' = Append(resultChan, Published(i).pos)
                         /\ taskPc'[i] = "cancel"]_vars
    /\ [](mainPc \in {"warn", "return", "returned"} =>
              /\ \A i \in Tasks : taskPc[i] = "finished"
              /\ resultRecv = Len(resultChan)
              /\ \A k \in 1..Len(resultChan) :
                     bestResult.present /\ bestResult.GNO >= resultChan[k].GNO)

\* SearchParallel has returned after two scans ran side by side: both
\* published their match and the one published last was selected.
C26_Witness ==
    /\ mainPc = "returned"
    /\ cancelled
    /\ Len(resultChan) = 2
    /\ spRet = resultChan[2]
    /\ resultChan[1].GNO < resultChan[2].GNO

\* current_database when the event at g is processed: the schema of the last
\* processed query event before g that names one.
ProcessedDatabaseAt(evs, g) ==
    LET S == {k \in 1..(g - 1) :
                 evs[k].type = "QUERY" /\ evs[k].Schema # "" /\ ~TimeFiltered(evs[k])}
    IN IF S = {} THEN "" ELSE evs[SetMax(S)].Schema

\* The in-range, filter-passing transactions whose commit event the scan has
\* processed so far.
CommittedSoFar ==
    {t \in (1..Len(file.events)) \X (1..Len(file.events)) :
        /\ t[2] < idx
        /\ OneTransaction(file.events, t[1], t[2])
        /\ \/ config.FilterDatabase = ""
           \/ ProcessedDatabaseAt(file.events, t[1]) = config.FilterDatabase}

\* C27: after every processed event of a tracker scan, best is absent exactly
\* when no in-range, filter-passing transaction has committed so far, and
\* otherwise it is one of those committed transactions, with a gno at least
\* that of each of them.
C27_BestIsHighestSoFar ==
    tpc # "idle" =>
        /\ result.present <=> CommittedSoFar # {}
        /\ result.present =>
               /\ \E t \in CommittedSoFar : IsTxn(result, file.events, t[1], t[2])
               /\ \A t \in CommittedSoFar : file.events[t[1]].GNO <= result.GNO

\* In the middle of a scan, a transaction of lower gno has committed after
\* the best one and has not replaced it.
C27_Witness ==
    /\ AtFileEvent
    /\ \E t, u \in CommittedSoFar :
           /\ t[2] < u[1]
           /\ file.events[u[1]].GNO < file.events[t[1]].GNO
           /\ IsTxn(result, file.events, t[1], t[2])

\* The GTID event at g is processed and no commit event is processed after it
\* before another GTID event or the end of what the scan read.
NeverCommits(evs, g) ==
    /\ InTarget(evs[g]) /\ ~TimeFiltered(evs[g])
    /\ ~\E c \in (g + 1)..Len(evs) : OneTransaction(evs, g, c)

\* C28: the tracker only returns a transaction whose commit event (XID or
\* COMMIT query) was processed after its GTID event with no other GTID event
\* processed in between; an in-range transaction still open at the end of the
\* stream, or followed by another GTID event before it commits, is never
\* returned.
C28_OnlyCommittedReturned ==
    tpc = "returned" =>
        /\ retPos.present =>
               \E g, c \in 1..(idx - 1) :
                   /\ OneTransaction(file.events, g, c)
                   /\ IsTxn(retPos, file.events, g, c)
        /\ StartsDistinct(file.events) =>
               \A g \in 1..Len(file.events) :
                   NeverCommits(file.events, g) =>
                       ~(/\ retPos.present
                         /\ retPos.GTID = GTIDString(file.events[g].SID, file.events[g].GNO)
                         /\ retPos.Position =
                                Uint32(file.events[g].LogPos - file.events[g].EventSize))

\* A scan returns a committed transaction although a transaction of higher
\* gno was read and never committed.
C28_Witness ==
    /\ Scanned /\ retPos.present
    /\ \E g \in 1..(idx - 1) :
           /\ NeverCommits(file.events, g)
           /\ file.events[g].GNO > retPos.GNO

\* C30: a commit event processed while no transaction is in flight leaves
\* the transaction in flight and the best match unchanged.
C30_CommitWithoutTransaction ==
    [][(AtFileEvent /\ IsCommit(file.events[idx]) /\ ~currentTransaction.present) =>
          /\ result' = result
          /\ currentTransaction' = currentTransaction]_vars

\* A commit event has just been processed right after another commit event,
\* with a best match present.
C30_Witness ==
    /\ tpc = "parsing" /\ idx > 2
    /\ result.present /\ ~currentTransaction.present
    /\ IsCommit(file.events[idx - 1]) /\ ~TimeFiltered(file.events[idx - 1])
    /\ IsCommit(file.events[idx - 2]) /\ ~TimeFiltered(file.events[idx - 2])

\* C29: with a start-time bound, an event whose timestamp is earlier than the
\* bound is skipped entirely by the file tracker and by Remote Search: the
\* current database, the transaction in flight and the best match are
\* unchanged and the scan goes on, whether the event is a GTID event, a
\* commit event or a query event that carries a schema.
C29_BeforeStartSkipped ==
    [][/\ (AtFileEvent /\ BeforeStartTime(file.events[idx]) /\ idx' # idx) =>
              /\ UNCHANGED <<result, currentTransaction, currentDatabase>>
              /\ tpc' = "parsing"
       /\ (AtEvent /\ BeforeStartTime(stream.events[remoteIdx])
                   /\ remoteIdx' # remoteIdx) =>
              /\ UNCHANGED <<remoteResult, remoteTransaction, remoteDatabase>>
              /\ rpc' = "streaming"]_vars

\* Both searches have read an in-range GTID event older than the bound and
\* then a commit event within it, and neither holds a match.
C29_Witness ==
    /\ tpc = "parsing" /\ idx = 3
    /\ rpc = "streaming" /\ remoteIdx = 3
    /\ InTarget(file.events[1]) /\ BeforeStartTime(file.events[1])
    /\ IsCommit(file.events[2]) /\ ~BeforeStartTime(file.events[2])
    /\ ~result.present /\ ~remoteResult.present

\* C31: for a concurrency limit of at least 1, SearchParallel returns a
\* position exactly when some file of the list, scanned on its own, yields a
\* match; the cancellation flag is signalled only after a match has been
\* published.
C31_FoundIffSomeFileMatches ==
    /\ mainPc = "returned" =>
           (spRet.present <=> \E i \in Tasks : Published(i).pos.present)
    /\ (cancelled /\ mainPc # "returned") => resultChan # <<>>

\* SearchParallel returns a position from a list that also holds a file
\* whose scan fails and a file whose match was never published.
C31_Witness ==
    /\ mainPc = "returned" /\ spRet.present
    /\ \E i \in Tasks : Published(i).err # ""
    /\ \E i \in Tasks :
           /\ Published(i).pos.present
           /\ \A k \in 1..Len(resultChan) : resultChan[k].BinlogFile # files[i].name

\* C32: for every concurrency limit of at least 1 and every finite file list,
\* SearchParallel terminates: every task acquires a slot and finishes, every
\* acquired slot is released, no send on resultChan or errorChan blocks or
\* follows the close of the channels, and the function returns.
C32_Terminates ==
    /\ <>(/\ mainPc = "returned"
           /\ \A i \in Tasks : taskPc[i] = "finished"
           /\ semaphore = 0 /\ wg = 0)
    /\ [](Len(resultChan) <= Len(files) /\ Len(errorChan) <= Len(files))
    /\ [](closerPc \in {"closedResults", "closedAll"} =>
              \A i \in Tasks : taskPc[i] = "finished")

\* SearchParallel has returned with one slot for the longest list, after a
\* task waited for the slot and left on the cancelled path; no slot is held.
C32_Witness ==
    /\ mainPc = "returned"
    /\ config.Parallel = 1 /\ Len(files) = MaxFairFiles
    /\ semaphore = 0
    /\ \E i \in Tasks :
           /\ Published(i).pos.present
           /\ \A k \in 1..Len(resultChan) : resultChan[k].BinlogFile # files[i].name

\* The transaction numbers logged in file i, and those the header of the
\* first file reports as executed before it.
LoggedIn(i) == {files[i].events[k].GNO :
                   k \in {k \in 1..Len(files[i].events) : IsGTID(files[i].events[k])}}
ExecutedBeforeLogs ==
    {g \in 1..3 : GTIDString(1, g) \in ParseMysqlGTIDSet(files[1].events[2].GTIDSets).set}

\* The transactions were committed in the order of their numbers.
InCommitOrder ==
    /\ \A i, j \in 1..Len(files) :
           i < j => \A g \in LoggedIn(i), h \in LoggedIn(j) : g < h
    /\ \A i \in 1..Len(files) :
           \A g \in ExecutedBeforeLogs, h \in LoggedIn(i) : g < h

\* The highest transaction number of the target set committed in any file.
CommittedTargets(i) ==
    {files[i].events[t[1]].GNO : t \in InRangeCommits(files[i].events)}
HoldsHighest(i) ==
    /\ CommittedTargets(i) # {}
    /\ \A j \in 1..Len(files) : \A g \in CommittedTargets(j) :
           g <= SetMax(CommittedTargets(i))

\* C33: on contiguous logs with cumulative, monotone headers, the scan from
\* the selected start file on does not lose the answer: the file that holds
\* the highest committed transaction of the target set is the selected start
\* file or a later one.
C33_StartFileKeepsAnswer ==
    (spc = "returned" /\ selErr = "" /\ Monotone /\ InCommitOrder) =>
        \A i \in 1..Len(files) :
            HoldsHighest(i) =>
                \E k \in 1..Len(FilteredFiles(files, selRet)) :
                    FilteredFiles(files, selRet)[k] = files[i]

\* C34: on an event sequence without rotate events, read without time
\* bounds, RemoteSearcher.Search (the stream then goes idle) and
\* searchBinlogFile return the same gno, gtid, position, commit_position,
\* resume_position, next_gtid and database, and one returns nothing exactly
\* when the other does.
C34_RemoteMatchesTracker ==
    (tpc = "returned" /\ rpc \notin {"enter", "streaming"}) =>
        /\ retErr = "" /\ remoteRetErr = ""
        /\ remoteRetPos.present <=> retPos.present
        /\ remoteRetPos.GNO = retPos.GNO
        /\ remoteRetPos.GTID = retPos.GTID
        /\ remoteRetPos.Position = retPos.Position
        /\ remoteRetPos.CommitPosition = retPos.CommitPosition
        /\ remoteRetPos.ResumePosition = retPos.ResumePosition
        /\ remoteRetPos.NextGTID = retPos.NextGTID
        /\ remoteRetPos.Database = retPos.Database

\* Both searches returned the transaction of database db1 that a COMMIT query
\* committed, under a database filter, the stream having gone idle.
C34_Witness ==
    /\ tpc = "returned" /\ rpc = "ret-timeout"
    /\ config.FilterDatabase = "db1"
    /\ retPos.present /\ remoteRetPos.present
    /\ remoteRetPos.Database = "db1"
    /\ \E c \in 1..Len(file.events) :
           /\ file.events[c].type = "QUERY"
           /\ file.events[c].LogPos = remoteRetPos.CommitPosition

\* C35: in every position RemoteSearcher.Search returns, resume_position is an
\* offset of the file named by binlog_file: the GTID event whose end offset
\* became the resume position lies in that file, also when a rotate event
\* arrived between the commit of the match and that GTID event.
C35_ResumeInReturnedFile ==
    (rpc = "ret-next-gtid" /\ Unfiltered /\ remoteRetPos.present) =>
        /\ remoteRetPos.ResumePosition = stream.events[remoteIdx - 1].LogPos
        /\ remoteRetPos.BinlogFile = FileAt(stream.events, remoteIdx - 1)

\* C36: FindStartFileUsingHeaders returns an error only for the empty file
\* list; for a non-empty list it returns a member of the list and a nil error,
\* and the last file when every probe fails or finds no previous-GTIDs event.
C36_ErrorOnlyOnEmptyList ==
    spc = "returned" =>
        /\ selErr # "" <=> Len(files) = 0
        /\ Len(files) > 0 => \E i \in 1..Len(files) : selRet = files[i].name
        /\ (Len(files) > 0 /\ \A i \in 1..Len(files) : HeaderUnknown(files[i].events))
               => selRet = files[Len(files)].name

\* A return from a list of several files after every probe failed.
C36_Witness ==
    /\ spc = "returned"
    /\ Len(files) >= 3
    /\ \A i \in 1..Len(files) : files[i].ioError
    /\ Len(probes) >= 2
    /\ \A k \in 1..Len(probes) : probes[k].err # ""
    /\ selErr = "" /\ selRet = files[Len(files)].name

\* C37: a concurrency limit below 1 is rejected as a configuration error:
\* whenever SearchParallel is started, config.Parallel is at least 1.
C37_ParallelAtLeastOne ==
    cliPc = "search-parallel" => config.Parallel >= 1

\* The configuration of the remote mode: -host, -user, -password, -start-file
\* and -gtid are set, -dir is left empty, the output format is valid.
RemoteMode(c) ==
    /\ c.Host # "" /\ c.User # "" /\ c.Password # "" /\ c.StartFile # ""
    /\ c.TargetGTID # "" /\ c.GTIDFile = "" /\ ~c.FindActiveMaster
    /\ c.BinlogDir = "" /\ IsValid(c.OutputFormat)

\* C38: validateConfig accepts the configuration of the remote mode, and
\* findGTIDPosition then reaches the remote search.
C38_RemoteModeAccepted ==
    (RemoteMode(cfg) /\ cliPc # "main") =>
        /\ cliErr = ""
        /\ cliPc \in {"find", "remote-search"}

\* The predicate was evaluated at the 0-based index h with outcome b.
Evaluated(h, b) ==
    \E k \in 1..Len(probes) :
        /\ probes[k].h = h
        /\ b <=> (probes[k].err = "" /\ probes[k].skipped)

\* C39: for any predicate over n >= 1 files, monotone or not, the idx that
\* sortSearch computes satisfies 0 <= idx <= n; idx = n or the predicate was
\* evaluated true at idx; idx = 0 or it was evaluated false at idx - 1. Hence,
\* when idx > 0, the header of the returned file itself was probed and did not
\* contain the target, or was unknown.
C39_SearchPostcondition ==
    (spc = "returned" /\ Len(files) >= 1) =>
        /\ searchI \in 0..Len(files)
        /\ searchI = Len(files) \/ Evaluated(searchI, TRUE)
        /\ searchI = 0 \/ Evaluated(searchI - 1, FALSE)
        /\ searchI > 0 =>
               /\ files[searchI].name = selRet
               /\ Evaluated(searchI - 1, FALSE)
               /\ ~HeaderContainsTarget(files[ReturnedIndex].events)

\* A return from a list whose predicate is not monotone, with idx strictly
\* inside the list and a file before idx whose header contains the target.
C39_Witness ==
    /\ spc = "returned" /\ ~Monotone
    /\ Len(files) >= 4
    /\ searchI > 1 /\ searchI < Len(files)
    /\ \E i \in 1..(searchI - 1) : P(i)

====
